---- MODULE Spec2Model ----
(***************************************************************************)
(* CBC ingestion, normalization and prediction pipeline                    *)
(* (app/ai/cbc/predict.py, app/services/ai_service.py).                    *)
(*                                                                         *)
(* Numbers are integers in tenths (9.0 g/dL is 90).  A table is a record   *)
(* [cols, rows]: cols the sequence of column names, rows a sequence of     *)
(* rows, each a sequence of cells aligned with cols.  A cell is a number   *)
(* [k |-> "num", n], a string [k |-> "str", s] or missing [k |-> "nan"].   *)
(***************************************************************************)
EXTENDS Integers, Sequences, FiniteSets, TLC

VARIABLES
    model,          \* CBCPredictionService.model (None until loaded)
    scaler,         \* CBCPredictionService.scaler
    used_features,  \* CBCPredictionService.used_features
    _loaded,        \* CBCPredictionService._loaded
    _available,     \* CBCPredictionService._available (CBC_AI_AVAILABLE)
    files,          \* asset files present on disk
    disk,           \* content of the asset files: the bundle they load to
    reads,          \* number of times the assets were read from disk
    load_failed,    \* whether a call that loads the assets has raised
    db,             \* committed database rows and exported files
    input,          \* input of the operation last run
    last,           \* outcome of the operation last run
    clf_in,         \* the calls the operation last run made on the classifier
    pc,             \* position of each concurrent request
    fetched,        \* per request: what load_model_and_assets returned to it
    PDF_AVAILABLE   \* ai_service.PDF_AVAILABLE (pdfplumber and tabula import)

vars == <<model, scaler, used_features, _loaded, _available, files, disk, reads,
          load_failed, db, input, last, clf_in, pc, fetched, PDF_AVAILABLE>>

\* ------------------------------------------------------------------ bounds
\* most rows of an input table
MaxRows == 2

\* ----------------------------------------------------------------- strings
Range(f) == {f[x] : x \in DOMAIN f}

\* The characters of every string literal the model uses.
Chars ==
   "TLC" :> <<"T", "L", "C">> @@
   "PCV" :> <<"P", "C", "V">> @@
   "RBC" :> <<"R", "B", "C">> @@
   "HGB" :> <<"H", "G", "B">> @@
   "MCV" :> <<"M", "C", "V">> @@
   "MCH" :> <<"M", "C", "H">> @@
   "MCHC" :> <<"M", "C", "H", "C">> @@
   "PLT" :> <<"P", "L", "T">> @@
   "RDW" :> <<"R", "D", "W">> @@
   "Age" :> <<"A", "g", "e">> @@
   "Sex" :> <<"S", "e", "x">> @@
   "ID" :> <<"I", "D">> @@
   "Diagnosis" :> <<"D", "i", "a", "g", "n", "o", "s", "i", "s">> @@
   "Predicted_Anemia" :> <<"P", "r", "e", "d", "i", "c", "t", "e", "d", "_", "A", "n", "e", "m", "i", "a">> @@
   "tlc" :> <<"t", "l", "c">> @@
   "wbc" :> <<"w", "b", "c">> @@
   "white blood cells" :> <<"w", "h", "i", "t", "e", " ", "b", "l", "o", "o", "d", " ", "c", "e", "l", "l", "s">> @@
   "whitebloodcells" :> <<"w", "h", "i", "t", "e", "b", "l", "o", "o", "d", "c", "e", "l", "l", "s">> @@
   "w.b.c" :> <<"w", ".", "b", ".", "c">> @@
   "pcv" :> <<"p", "c", "v">> @@
   "hct" :> <<"h", "c", "t">> @@
   "hematocrit" :> <<"h", "e", "m", "a", "t", "o", "c", "r", "i", "t">> @@
   "rbc" :> <<"r", "b", "c">> @@
   "red blood cells" :> <<"r", "e", "d", " ", "b", "l", "o", "o", "d", " ", "c", "e", "l", "l", "s">> @@
   "redbloodcells" :> <<"r", "e", "d", "b", "l", "o", "o", "d", "c", "e", "l", "l", "s">> @@
   "hgb" :> <<"h", "g", "b">> @@
   "hb" :> <<"h", "b">> @@
   "hemoglobin" :> <<"h", "e", "m", "o", "g", "l", "o", "b", "i", "n">> @@
   "haemoglobin" :> <<"h", "a", "e", "m", "o", "g", "l", "o", "b", "i", "n">> @@
   "mcv" :> <<"m", "c", "v">> @@
   "mch" :> <<"m", "c", "h">> @@
   "mchc" :> <<"m", "c", "h", "c">> @@
   "plt" :> <<"p", "l", "t">> @@
   "platelets" :> <<"p", "l", "a", "t", "e", "l", "e", "t", "s">> @@
   "platelet" :> <<"p", "l", "a", "t", "e", "l", "e", "t">> @@
   "platelet count" :> <<"p", "l", "a", "t", "e", "l", "e", "t", " ", "c", "o", "u", "n", "t">> @@
   "rdw" :> <<"r", "d", "w">> @@
   "rdw-cv" :> <<"r", "d", "w", "-", "c", "v">> @@
   "rdw_cv" :> <<"r", "d", "w", "_", "c", "v">> @@
   "rdwcv" :> <<"r", "d", "w", "c", "v">> @@
   "rdw_sd" :> <<"r", "d", "w", "_", "s", "d">> @@
   "rdwsd" :> <<"r", "d", "w", "s", "d">> @@
   "age" :> <<"a", "g", "e">> @@
   "years" :> <<"y", "e", "a", "r", "s">> @@
   "age (y)" :> <<"a", "g", "e", " ", "(", "y", ")">> @@
   "sex" :> <<"s", "e", "x">> @@
   "gender" :> <<"g", "e", "n", "d", "e", "r">> @@
   "m/f" :> <<"m", "/", "f">> @@
   "male/female" :> <<"m", "a", "l", "e", "/", "f", "e", "m", "a", "l", "e">> @@
   "id" :> <<"i", "d">> @@
   "sample id" :> <<"s", "a", "m", "p", "l", "e", " ", "i", "d">> @@
   "sampleid" :> <<"s", "a", "m", "p", "l", "e", "i", "d">> @@
   "record id" :> <<"r", "e", "c", "o", "r", "d", " ", "i", "d">> @@
   "patient id" :> <<"p", "a", "t", "i", "e", "n", "t", " ", "i", "d">> @@
   "no" :> <<"n", "o">> @@
   "W.B.C" :> <<"W", ".", "B", ".", "C">> @@
   "White Blood Cells" :> <<"W", "h", "i", "t", "e", " ", "B", "l", "o", "o", "d", " ", "C", "e", "l", "l", "s">> @@
   "Hb" :> <<"H", "b">> @@
   "Hemoglobin" :> <<"H", "e", "m", "o", "g", "l", "o", "b", "i", "n">> @@
   " MCV " :> <<" ", "M", "C", "V", " ">> @@
   "Platelet Count" :> <<"P", "l", "a", "t", "e", "l", "e", "t", " ", "C", "o", "u", "n", "t">> @@
   "Gender" :> <<"G", "e", "n", "d", "e", "r">> @@
   "Notes" :> <<"N", "o", "t", "e", "s">> @@
   "Parameter" :> <<"P", "a", "r", "a", "m", "e", "t", "e", "r">> @@
   "Value" :> <<"V", "a", "l", "u", "e">> @@
   " parameter " :> <<" ", "p", "a", "r", "a", "m", "e", "t", "e", "r", " ">> @@
   "VALUE" :> <<"V", "A", "L", "U", "E">> @@
   "RDW-CV" :> <<"R", "D", "W", "-", "C", "V">> @@
   "Sample_ID" :> <<"S", "a", "m", "p", "l", "e", "_", "I", "D">> @@
   "Hgb." :> <<"H", "g", "b", ".">> @@
   "abc" :> <<"a", "b", "c">> @@
   "9.0" :> <<"9", ".", "0">> @@
   "13.5" :> <<"1", "3", ".", "5">> @@
   "70" :> <<"7", "0">> @@
   "85" :> <<"8", "5">> @@
   "4.5" :> <<"4", ".", "5">> @@
   "F" :> <<"F">> @@
   "M" :> <<"M">> @@
   "FEMALE" :> <<"F", "E", "M", "A", "L", "E">> @@
   "MALE" :> <<"M", "A", "L", "E">> @@
   "f" :> <<"f">> @@
   " Female " :> <<" ", "F", "e", "m", "a", "l", "e", " ">> @@
   "male" :> <<"m", "a", "l", "e">> @@
   "0" :> <<"0">> @@
   "1" :> <<"1">> @@
   "2" :> <<"2">> @@
   "x" :> <<"x">> @@
   "Anemia" :> <<"A", "n", "e", "m", "i", "a">> @@
   "Normal" :> <<"N", "o", "r", "m", "a", "l">> @@
   "parameter" :> <<"p", "a", "r", "a", "m", "e", "t", "e", "r">> @@
   "value" :> <<"v", "a", "l", "u", "e">> @@
   "nan" :> <<"n", "a", "n">> @@
   "cbc.csv" :> <<"c", "b", "c", ".", "c", "s", "v">> @@
   "CBC.CSV" :> <<"C", "B", "C", ".", "C", "S", "V">> @@
   "cbc.xlsx" :> <<"c", "b", "c", ".", "x", "l", "s", "x">> @@
   "cbc.xls" :> <<"c", "b", "c", ".", "x", "l", "s">> @@
   "cbc.pdf" :> <<"c", "b", "c", ".", "p", "d", "f">> @@
   "cbc.docx" :> <<"c", "b", "c", ".", "d", "o", "c", "x">> @@
   "cbc" :> <<"c", "b", "c">> @@
   ".csv" :> <<".", "c", "s", "v">> @@
   ".xlsx" :> <<".", "x", "l", "s", "x">> @@
   ".xls" :> <<".", "x", "l", "s">> @@
   ".pdf" :> <<".", "p", "d", "f">> @@
   "scan.png" :> <<"s", "c", "a", "n", ".", "p", "n", "g">> @@
   "scan.JPG" :> <<"s", "c", "a", "n", ".", "J", "P", "G">> @@
   "scan.gif" :> <<"s", "c", "a", "n", ".", "g", "i", "f">> @@
   ".jpg" :> <<".", "j", "p", "g">> @@
   ".jpeg" :> <<".", "j", "p", "e", "g">> @@
   ".png" :> <<".", "p", "n", "g">> @@
   ".bmp" :> <<".", "b", "m", "p">> @@
   ".tiff" :> <<".", "t", "i", "f", "f">> @@
   "" :> <<>>


Lower ==
   "A" :> "a" @@ "B" :> "b" @@ "C" :> "c" @@ "D" :> "d" @@ "E" :> "e" @@ "F" :> "f" @@
   "G" :> "g" @@ "H" :> "h" @@ "I" :> "i" @@ "J" :> "j" @@ "K" :> "k" @@ "L" :> "l" @@
   "M" :> "m" @@ "N" :> "n" @@ "O" :> "o" @@ "P" :> "p" @@ "Q" :> "q" @@ "R" :> "r" @@
   "S" :> "s" @@ "T" :> "t" @@ "U" :> "u" @@ "V" :> "v" @@ "W" :> "w" @@ "X" :> "x" @@
   "Y" :> "y" @@ "Z" :> "z"

Upper == [c \in Range(Lower) |-> CHOOSE u \in DOMAIN Lower : Lower[u] = c]

Whitespace == {" ", "\t"}

\* str.strip(): leading and trailing whitespace removed
RECURSIVE LStrip(_)
LStrip(cs) ==
    IF cs # <<>> /\ Head(cs) \in Whitespace THEN LStrip(Tail(cs)) ELSE cs

RECURSIVE RStrip(_)
RStrip(cs) ==
    IF cs # <<>> /\ cs[Len(cs)] \in Whitespace
    THEN RStrip(SubSeq(cs, 1, Len(cs) - 1)) ELSE cs

strip(cs) == RStrip(LStrip(cs))

lower(cs) == [i \in 1..Len(cs) |-> IF cs[i] \in DOMAIN Lower THEN Lower[cs[i]] ELSE cs[i]]

upper(cs) == [i \in 1..Len(cs) |-> IF cs[i] \in DOMAIN Upper THEN Upper[cs[i]] ELSE cs[i]]

NotStripped(c) == c \notin {" ", ".", "-", "_"}

\* a normalization that keeps the case
NormCharsCased(cs) == SelectSeq(strip(cs), NotStripped)

\* norm(s): strip, lower-case, then drop every ' ', '.', '-' and '_'
NormChars(cs) == SelectSeq(lower(strip(cs)), NotStripped)

\* norm over the strings of the model, computed once
NormOf == [s \in DOMAIN Chars |-> NormChars(Chars[s])]

norm(s) == NormOf[s]

\* ----------------------------------------------------------------- aliases
AliasOrder == <<"TLC", "PCV", "RBC", "HGB", "MCV", "MCH", "MCHC", "PLT", "RDW",
                "Age", "Sex", "ID">>

ALIASES ==
   "TLC"  :> <<"tlc", "wbc", "white blood cells", "whitebloodcells", "w.b.c">> @@
   "PCV"  :> <<"pcv", "hct", "hematocrit">> @@
   "RBC"  :> <<"rbc", "red blood cells", "redbloodcells">> @@
   "HGB"  :> <<"hgb", "hb", "hemoglobin", "haemoglobin">> @@
   "MCV"  :> <<"mcv">> @@
   "MCH"  :> <<"mch">> @@
   "MCHC" :> <<"mchc">> @@
   "PLT"  :> <<"plt", "platelets", "platelet", "platelet count">> @@
   "RDW"  :> <<"rdw", "rdw-cv", "rdw_cv", "rdwcv", "rdw_sd", "rdwsd">> @@
   "Age"  :> <<"age", "years", "age (y)">> @@
   "Sex"  :> <<"sex", "gender", "m/f", "male/female">> @@
   "ID"   :> <<"id", "sample id", "sampleid", "record id", "patient id", "no">>

\* index of the first column whose normalized name is v_key, 0 if none
FirstMatch(df_columns, v_key) ==
    IF \E i \in 1..Len(df_columns) : norm(df_columns[i]) = v_key
    THEN CHOOSE i \in 1..Len(df_columns) :
            /\ norm(df_columns[i]) = v_key
            /\ \A j \in 1..(i - 1) : norm(df_columns[j]) # v_key
    ELSE 0

\* rename_map[col] = std_name
Assign(rename_map, col, std_name) ==
    [c \in DOMAIN rename_map \cup {col} |-> IF c = col THEN std_name ELSE rename_map[c]]

\* the loop over the variants of one canonical name (lines 52-59)
RECURSIVE ScanVariants(_, _, _, _)

\* a scan that goes on to the next variant whatever was found
AfterVariantAll(df_columns, std_name, i, rename_map) ==
    ScanVariants(df_columns, std_name, i + 1, rename_map)

\* lines 58-59: stop at the first variant that gave std_name a column
AfterVariant(df_columns, std_name, i, rename_map) ==
    IF std_name \in Range(rename_map) THEN rename_map
    ELSE ScanVariants(df_columns, std_name, i + 1, rename_map)

ScanVariants(df_columns, std_name, i, rename_map) ==
    IF i > Len(ALIASES[std_name]) THEN rename_map
    ELSE AfterVariant(df_columns, std_name, i,
            IF FirstMatch(df_columns, norm(ALIASES[std_name][i])) = 0 THEN rename_map
            ELSE Assign(rename_map,
                        df_columns[FirstMatch(df_columns, norm(ALIASES[std_name][i]))],
                        std_name))

\* the loop over the canonical names, in the declared order of ALIASES
RECURSIVE ScanNames(_, _, _)
ScanNames(df_columns, k, rename_map) ==
    IF k > Len(AliasOrder) THEN rename_map
    ELSE ScanNames(df_columns, k + 1,
                   ScanVariants(df_columns, AliasOrder[k], 1, rename_map))

\* build_rename_map: original column name -> canonical name
build_rename_map(df_columns) == ScanNames(df_columns, 1, <<>>)

\* DataFrame.rename(columns=...): unmatched columns keep their name
rename(df, rename_map) ==
    [df EXCEPT !.cols = [i \in 1..Len(df.cols) |->
        IF df.cols[i] \in DOMAIN rename_map THEN rename_map[df.cols[i]] ELSE df.cols[i]]]

\* ------------------------------------------------------------------- cells
NaN == [k |-> "nan"]

Num(n) == [k |-> "num", n |-> n]

Str(s) == [k |-> "str", s |-> s]

isna(c) == c.k = "nan"

DigitVal ==
   "0" :> 0 @@ "1" :> 1 @@ "2" :> 2 @@ "3" :> 3 @@ "4" :> 4 @@
   "5" :> 5 @@ "6" :> 6 @@ "7" :> 7 @@ "8" :> 8 @@ "9" :> 9

IsDigits(cs) == cs # <<>> /\ \A i \in 1..Len(cs) : cs[i] \in DOMAIN DigitVal

RECURSIVE DigitsValue(_)
DigitsValue(cs) ==
    IF cs = <<>> THEN 0
    ELSE 10 * DigitsValue(SubSeq(cs, 1, Len(cs) - 1)) + DigitVal[cs[Len(cs)]]

DotAt(cs) ==
    IF \E i \in 1..Len(cs) : cs[i] = "."
    THEN CHOOSE i \in 1..Len(cs) : cs[i] = "." /\ \A j \in 1..(i - 1) : cs[j] # "."
    ELSE 0

\* do the characters spell a decimal number: digits, optionally '.' and one
\* more digit (d is the place of the '.', 0 when there is none)
SpellsNumber(cs, d) ==
    IF d = 0 THEN IsDigits(cs)
    ELSE /\ IsDigits(SubSeq(cs, 1, d - 1))
         /\ Len(cs) = d + 1
         /\ IsDigits(SubSeq(cs, d + 1, Len(cs)))

\* the number the characters spell, in tenths
SpelledValue(cs, d) ==
    IF d = 0 THEN 10 * DigitsValue(cs)
    ELSE 10 * DigitsValue(SubSeq(cs, 1, d - 1)) + DigitVal[cs[d + 1]]

\* float(text) / pandas' numeric parse of a text s with characters cs: the
\* number it spells, the text itself when it spells none
ParseStripped(s, cs, d) ==
    IF SpellsNumber(cs, d) THEN Num(SpelledValue(cs, d)) ELSE Str(s)

ParseChars(s, cs) == ParseStripped(s, cs, DotAt(cs))

\* the parse over the strings of the model, computed once
ParseOf == [s \in DOMAIN NormOf |-> ParseChars(s, strip(Chars[s]))]

\* a cell through the numeric parse: a text that spells a number becomes
\* that number, every other cell is left as it is
ParseCell(c) == IF c.k = "str" THEN ParseOf[c.s] ELSE c

CellParses(c) == ParseCell(c).k # "str"

\* ------------------------------------------------------------------ tables
\* a column as pandas sees it: object dtype iff it holds a text
column(df, i) == [r \in 1..Len(df.rows) |-> df.rows[r][i]]

IsObject(series) == \E r \in 1..Len(series) : series[r].k = "str"

setcolumn(df, i, series) ==
    [df EXCEPT !.rows = [r \in 1..Len(df.rows) |-> [df.rows[r] EXCEPT ![i] = series[r]]]]

HasColumn(df, name) == \E i \in 1..Len(df.cols) : df.cols[i] = name

\* df[c] is a DataFrame, not a Series, when the name c labels two columns
Duplicated(df, name) ==
    \E i, j \in 1..Len(df.cols) : i # j /\ df.cols[i] = name /\ df.cols[j] = name

FirstPosition(df, name) ==
    CHOOSE i \in 1..Len(df.cols) : df.cols[i] = name /\ \A j \in 1..(i - 1) : df.cols[j] # name

\* pd.to_numeric(series, errors='ignore'): the parsed series when every value
\* parses, otherwise the series as it was
to_numeric_ignore(series) ==
    IF \A r \in 1..Len(series) : CellParses(series[r])
    THEN [r \in 1..Len(series) |-> ParseCell(series[r])]
    ELSE series

\* pd.to_numeric(series, errors='coerce'): unparseable values become missing
to_numeric_coerce(series) ==
    [r \in 1..Len(series) |-> IF CellParses(series[r]) THEN ParseCell(series[r]) ELSE NaN]

\* str(value) of the values an object column holds, as characters
RECURSIVE DigitChars(_)
DigitChars(n) ==
    IF n < 10 THEN <<CHOOSE ch \in DOMAIN DigitVal : DigitVal[ch] = n>>
    ELSE Append(DigitChars(n \div 10), CHOOSE ch \in DOMAIN DigitVal : DigitVal[ch] = n % 10)

astype_str(c) ==
    IF c.k = "str" THEN Chars[c.s]
    ELSE IF c.k = "nan" THEN <<"n", "a", "n">>
    ELSE IF c.n % 10 = 0 THEN DigitChars(c.n \div 10)
    ELSE DigitChars(c.n \div 10) \o <<".">> \o DigitChars(c.n % 10)

\* a dictionary without the digit keys
SexMapWords(cs) ==
    IF cs \in {<<"F">>, <<"F", "E", "M", "A", "L", "E">>} THEN Num(0)
    ELSE IF cs \in {<<"M">>, <<"M", "A", "L", "E">>} THEN Num(10)
    ELSE NaN

\* the dictionary of normalize_sex_column; a key that is absent maps to NaN
SexMap(cs) ==
    IF cs \in {<<"F">>, <<"F", "E", "M", "A", "L", "E">>, <<"0">>} THEN Num(0)
    ELSE IF cs \in {<<"M">>, <<"M", "A", "L", "E">>, <<"1">>} THEN Num(10)
    ELSE NaN

\* the distinct non-missing values of a numeric series
UniqueValues(series) == {series[r].n : r \in {q \in 1..Len(series) : ~isna(series[q])}}

\* normalize_sex_column
normalize_sex_column(series) ==
    IF IsObject(series)
    THEN [r \in 1..Len(series) |-> SexMap(upper(strip(astype_str(series[r]))))]
    ELSE IF UniqueValues(series) = {0, 10} THEN series
    ELSE IF UniqueValues(series) = {10, 20}
    THEN [r \in 1..Len(series) |-> IF isna(series[r]) THEN NaN ELSE Num(series[r].n - 10)]
    ELSE to_numeric_coerce(series)

\* ----------------------------------------------------------------- results
Returned(v) == [ok |-> TRUE, value |-> v]

Raised(exc, what, detail) == [ok |-> FALSE, exc |-> exc, what |-> what, detail |-> detail]

\* ----------------------------------------------------------- normalization
\* lines 85-87: the Sex column, when there is one
NormalizeSex(df) ==
    IF HasColumn(df, "Sex")
    THEN setcolumn(df, FirstPosition(df, "Sex"),
                   normalize_sex_column(column(df, FirstPosition(df, "Sex"))))
    ELSE df

\* lines 89-92: every column but Diagnosis through
\* pd.to_numeric(errors='ignore'), in column order
RECURSIVE ConvertColumns(_, _)
ConvertColumns(df, i) ==
    IF i > Len(df.cols) THEN df
    ELSE IF df.cols[i] = "Diagnosis" THEN ConvertColumns(df, i + 1)
    ELSE ConvertColumns(setcolumn(df, i, to_numeric_ignore(column(df, i))), i + 1)

RowComplete(df, row, features) ==
    \A f \in 1..Len(features) : \A i \in 1..Len(df.cols) :
        df.cols[i] = features[f] => ~isna(row[i])

\* df.dropna(subset=used_features).reset_index(drop=True)
dropna(df, features) ==
    [df EXCEPT !.rows = SelectSeq(df.rows, LAMBDA row : RowComplete(df, row, features))]

\* lines 95: the required names that label no column
MissingFeatures(df, features) ==
    SelectSeq(features, LAMBDA c : ~HasColumn(df, c))

\* lines 100-104
PrepareRows(df_model) ==
    IF Len(df_model.rows) = 0
    THEN Raised("ValueError", "no_valid_rows", <<>>)
    ELSE Returned(df_model)

\* lines 94-104
PrepareChecked(df, features) ==
    IF MissingFeatures(df, features) # <<>>
    THEN Raised("ValueError", "missing_columns", MissingFeatures(df, features))
    ELSE PrepareRows(dropna(df, features))

\* lines 85-104, on the renamed table: normalize_sex_column raises on a
\* DataFrame (Sex labels two columns), pd.to_numeric likewise
PrepareRenamed(df, features) ==
    IF Duplicated(df, "Sex")
    THEN Raised("AttributeError", "duplicate_column", <<"Sex">>)
    ELSE IF \E i \in 1..Len(df.cols) : df.cols[i] # "Diagnosis" /\ Duplicated(df, df.cols[i])
    THEN Raised("TypeError", "duplicate_column", <<>>)
    ELSE PrepareChecked(ConvertColumns(NormalizeSex(df), 1), features)

prepare_dataframe_for_inference(raw_df, features) ==
    PrepareRenamed(rename(raw_df, build_rename_map(raw_df.cols)), features)

\* ---------------------------------------------------------- report synthesis
\* row.get(col, nan) on a row of the table: missing when the column is absent
RowGet(df, row, col) ==
    IF HasColumn(df, col) THEN row[FirstPosition(df, col)] ELSE NaN

\* float(x) of a present value: nan when the conversion raises
FloatOrNaN(c) == IF ParseCell(c).k = "str" THEN NaN ELSE ParseCell(c)

\* _val(row, col): float(row[col]) when present, nan when missing or on any
\* exception (a text that is no number, a label that is duplicated)
_val(df, row, col) ==
    IF Duplicated(df, col) THEN NaN ELSE FloatOrNaN(RowGet(df, row, col))

\* boundaries that take 80.0 and 100.0 out of the normocytic range
PhenotypeOfInclusive(mcv) ==
    IF isna(mcv) THEN "undetermined"
    ELSE IF mcv.n <= 800 THEN "Microcytic Anemia"
    ELSE IF mcv.n >= 1000 THEN "Macrocytic Anemia"
    ELSE "Normocytic Anemia"

\* lines 139-148
PhenotypeOf(mcv) ==
    IF isna(mcv) THEN "undetermined"
    ELSE IF mcv.n < 800 THEN "Microcytic Anemia"
    ELSE IF mcv.n > 1000 THEN "Macrocytic Anemia"
    ELSE "Normocytic Anemia"

\* thresholds that take 32.0 and 14.5 themselves as findings
HintsOfInclusive(mchc, rdw) ==
    (IF ~isna(mchc) /\ mchc.n <= 320 THEN <<"Hypochromia">> ELSE <<>>) \o
    (IF ~isna(rdw) /\ rdw.n >= 145 THEN <<"Elevated RDW">> ELSE <<>>)

\* lines 150-153
HintsOf(mchc, rdw) ==
    (IF ~isna(mchc) /\ mchc.n < 320 THEN <<"Hypochromia">> ELSE <<>>) \o
    (IF ~isna(rdw) /\ rdw.n > 145 THEN <<"Elevated RDW">> ELSE <<>>)

base_tests == <<"Repeat CBC", "Ferritin + Serum Iron + TIBC", "CRP/ESR">>

lifestyle == <<"Iron-rich foods", "Vitamin C with meals", "Avoid tea and coffee after meals">>

red_flags == <<"Dizziness/fainting", "Severe drop in hemoglobin", "Visible bleeding">>

\* lines 180-196
extra_tests(mcv) ==
    IF isna(mcv) THEN <<>>
    ELSE IF mcv.n < 800 THEN <<"Fecal occult blood test", "Uterine bleeding/malabsorption">>
    ELSE IF mcv.n > 1000
    THEN <<"Vitamin B12 and folate", "Thyroid function (TSH)", "Liver function (LFTs)">>
    ELSE <<"Kidney function (Creatinine/eGFR)", "Chronic diseases or acute bleeding">>

\* f"{x:.1f}" of a value held in tenths
OneDecimal(n) == <<n \div 10, ".", n % 10>>

Bullets(items) == [i \in 1..Len(items) |-> <<"- ", items[i]>>]

\* a report whose base panel and lifestyle list are kept for the determined
\* phenotypes
AnemiaReportByPhenotype(phenotype, hints, hgb, mcv) ==
    << <<"Result: Anemia Detected">> >>
    \o (IF ~isna(hgb) THEN << <<"Hb: ", OneDecimal(hgb.n), " g/dL">> >> ELSE <<>>)
    \o (IF ~isna(mcv) THEN << <<"MCV: ", OneDecimal(mcv.n), " fL">> >> ELSE <<>>)
    \o << <<"Expected Classification: ", phenotype>> >>
    \o (IF hints # <<>> THEN << <<"Supporting Observations: ", hints>> >> ELSE <<>>)
    \o << <<"Suggested Tests:">> >>
    \o (IF isna(mcv) THEN <<>> ELSE Bullets(base_tests \o extra_tests(mcv)))
    \o << <<"Lifestyle Recommendations:">> >>
    \o (IF isna(mcv) THEN <<>> ELSE Bullets(lifestyle))
    \o << <<"Red Flags:">> >> \o Bullets(red_flags)
    \o << <<"Important Notice: automated advisory report, not a final diagnosis">> >>

\* lines 204-231: the lines of the anemia report
AnemiaReport(phenotype, hints, hgb, mcv) ==
    << <<"Result: Anemia Detected">> >>
    \o (IF ~isna(hgb) THEN << <<"Hb: ", OneDecimal(hgb.n), " g/dL">> >> ELSE <<>>)
    \o (IF ~isna(mcv) THEN << <<"MCV: ", OneDecimal(mcv.n), " fL">> >> ELSE <<>>)
    \o << <<"Expected Classification: ", phenotype>> >>
    \o (IF hints # <<>> THEN << <<"Supporting Observations: ", hints>> >> ELSE <<>>)
    \o << <<"Suggested Tests:">> >> \o Bullets(base_tests \o extra_tests(mcv))
    \o << <<"Lifestyle Recommendations:">> >> \o Bullets(lifestyle)
    \o << <<"Red Flags:">> >> \o Bullets(red_flags)
    \o << <<"Important Notice: automated advisory report, not a final diagnosis">> >>

\* _anemia_phenotype over the three values it reads
_anemia_phenotype(mcv, mchc, rdw) ==
    [phenotype |-> PhenotypeOf(mcv), hints |-> HintsOf(mchc, rdw)]

ReportOf(ph, hgb, mcv) == AnemiaReport(ph.phenotype, ph.hints, hgb, mcv)

\* build_report(row): the report as its sequence of lines; the row carries
\* Predicted_Anemia = pred
build_report(df, row, pred) ==
    IF pred = 0 THEN << <<"Result: Not Anemic">>, <<"Note: healthy lifestyle">> >>
    ELSE ReportOf(_anemia_phenotype(_val(df, row, "MCV"), _val(df, row, "MCHC"),
                                    _val(df, row, "RDW")),
                  _val(df, row, "HGB"), _val(df, row, "MCV"))

\* ------------------------------------------------- scaler and classifier
\* The fitted scaler and the trained classifier are opaque artifacts.  The
\* scaler stands for any per-feature map that is not the identity (a shift);
\* the classifier for any map from scaled rows to a label and a probability
\* pair (in tenths: <<normal, anemia>>).
CanFloat(c) == ParseCell(c).k = "num"

\* df[used_features].values: the required features only, in list order
FeatureMatrix(df, features) ==
    [r \in 1..Len(df.rows) |->
        [f \in 1..Len(features) |-> RowGet(df, df.rows[r], features[f])]]

RECURSIVE SumTo(_, _)
SumTo(xs, i) == IF i = 0 THEN 0 ELSE xs[i] + SumTo(xs, i - 1)

Sum(xs) == SumTo(xs, Len(xs))

\* scaler.transform(X): raises on a value that is no number
transform(sc, X) ==
    IF \E r \in 1..Len(X) : \E f \in 1..Len(X[r]) : ~CanFloat(X[r][f])
    THEN Raised("ValueError", "could_not_convert", <<>>)
    ELSE Returned([r \in 1..Len(X) |->
                     [f \in 1..Len(X[r]) |-> ParseCell(X[r][f]).n - sc.shift]])

\* model.predict(X)
predict(m, X) == [r \in 1..Len(X) |-> IF Sum(X[r]) < m.threshold THEN 1 ELSE 0]

\* model.predict_proba(X)
predict_proba(m, X) ==
    [r \in 1..Len(X) |->
        IF Sum(X[r]) < m.threshold THEN <<10 - m.sure, m.sure>> ELSE <<m.sure, 10 - m.sure>>]

\* ------------------------------------------------------------ asset bundle
\* None, as the value of a field that holds an object
NoneV == [none |-> TRUE]

\* None, as the value of the field that holds the feature list
NoFeatures == <<>>

\* the existence checks made in another order
load_model_and_assets_scaler_first(fs, dk) ==
    IF "SCALER_PATH" \notin fs
    THEN Raised("FileNotFoundError", "Scaler file not found", <<"SCALER_PATH">>)
    ELSE IF "MODEL_PATH" \notin fs
    THEN Raised("FileNotFoundError", "Model file not found", <<"MODEL_PATH">>)
    ELSE IF "FEATURES_PTH" \notin fs
    THEN Raised("FileNotFoundError", "Features file not found", <<"FEATURES_PTH">>)
    ELSE Returned(dk)

\* load_model_and_assets(): fs the files present, dk what they hold
load_model_and_assets(fs, dk) ==
    IF "MODEL_PATH" \notin fs
    THEN Raised("FileNotFoundError", "Model file not found", <<"MODEL_PATH">>)
    ELSE IF "SCALER_PATH" \notin fs
    THEN Raised("FileNotFoundError", "Scaler file not found", <<"SCALER_PATH">>)
    ELSE IF "FEATURES_PTH" \notin fs
    THEN Raised("FileNotFoundError", "Features file not found", <<"FEATURES_PTH">>)
    ELSE Returned(dk)

\* the service object as a value
Svc == [model |-> model, scaler |-> scaler, used_features |-> used_features,
        _loaded |-> _loaded, _available |-> _available]

\* the effect of a call on the service: the service after it, the number of
\* asset reads it made, what it returned or raised, its classifier calls
Effect(S, n, out, calls) == [svc |-> S, reads |-> n, out |-> out, calls |-> calls]

\* the flag set whether or not the assets were loaded
LoadedFlagFirst(S, r) ==
    IF r.ok
    THEN Effect([S EXCEPT !.model = r.value.model, !.scaler = r.value.scaler,
                          !.used_features = r.value.used_features, !._loaded = TRUE],
                1, Returned(NoneV), <<>>)
    ELSE Effect([S EXCEPT !._loaded = TRUE], 0, r, <<>>)

\* lines 210-211: the tuple assignment and the flag
Loaded(S, r) ==
    IF r.ok
    THEN Effect([S EXCEPT !.model = r.value.model, !.scaler = r.value.scaler,
                          !.used_features = r.value.used_features, !._loaded = TRUE],
                1, Returned(NoneV), <<>>)
    ELSE Effect(S, 0, r, <<>>)

\* load_model without its "if not self._loaded"
load_model_unguarded(S, fs, dk) ==
    IF ~S._available
    THEN Effect(S, 0, Raised("RuntimeError", "AI prediction modules are not available", <<>>),
                <<>>)
    ELSE Loaded(S, load_model_and_assets(fs, dk))

\* CBCPredictionService.load_model
load_model(S, fs, dk) ==
    IF ~S._available
    THEN Effect(S, 0, Raised("RuntimeError", "AI prediction modules are not available", <<>>),
                <<>>)
    ELSE IF ~S._loaded THEN Loaded(S, load_model_and_assets(fs, dk))
    ELSE Effect(S, 0, Returned(NoneV), <<>>)

\* "if not self._loaded: self.load_model()"
EnsureLoaded(S, fs, dk) ==
    IF ~S._loaded THEN load_model(S, fs, dk) ELSE Effect(S, 0, Returned(NoneV), <<>>)

\* --------------------------------------------------------------- prediction
ValueNames == <<"RBC", "HGB", "PCV", "MCV", "MCH", "MCHC", "TLC", "PLT">>

\* float(row.get(name, 0)) raises on a text that is no number
ValuesOk(df, row) ==
    \A i \in 1..Len(ValueNames) : ParseCell(RowGet(df, row, ValueNames[i])).k # "str"

ValuesOf(df, row) ==
    [i \in 1..Len(ValueNames) |->
        IF HasColumn(df, ValueNames[i]) THEN ParseCell(RowGet(df, row, ValueNames[i]))
        ELSE Num(0)]

Label(pred) == IF pred = 1 THEN "Anemia" ELSE "Normal"

Max(a, b) == IF a >= b THEN a ELSE b

ClassifierCalls(X) ==
    <<[fn |-> "predict", ndarray |-> X], [fn |-> "predict_proba", ndarray |-> X]>>

\* lines 259-283: one entry of predict_batch's result list (i is 1-based)
BatchEntry(df, i, pred, probs) ==
    [row_index       |-> i - 1,
     prediction      |-> Label(pred),
     prediction_code |-> pred,
     probability     |-> probs[2] * 10,
     confidence      |-> IF Max(probs[1], probs[2]) > 8 THEN "High" ELSE "Medium",
     probabilities   |-> [normal |-> probs[1], anemia |-> probs[2]],
     values          |-> ValuesOf(df, df.rows[i])]

\* a report chosen by the size of the anemia probability
BatchResultByProbability(df, i, pred, probs, with_report) ==
    IF with_report
    THEN [report |-> build_report(df, df.rows[i], IF probs[2] > 8 THEN 1 ELSE 0)]
         @@ BatchEntry(df, i, pred, probs)
    ELSE BatchEntry(df, i, pred, probs)

\* lines 285-289
BatchResult(df, i, pred, probs, with_report) ==
    IF with_report
    THEN [report |-> build_report(df, df.rows[i], pred)] @@ BatchEntry(df, i, pred, probs)
    ELSE BatchEntry(df, i, pred, probs)

\* lines 254-293
BatchResults(L, df, X, with_report) ==
    IF \E i \in 1..Len(df.rows) : ~ValuesOk(df, df.rows[i])
    THEN Effect(L.svc, L.reads, Raised("ValueError", "could_not_convert", <<>>),
                ClassifierCalls(X))
    ELSE Effect(L.svc, L.reads,
                Returned([i \in 1..Len(df.rows) |->
                    BatchResult(df, i, predict(L.svc.model, X)[i],
                                predict_proba(L.svc.model, X)[i], with_report)]),
                ClassifierCalls(X))

\* lines 252-253
BatchScaled(L, df, T, with_report) ==
    IF ~T.ok THEN Effect(L.svc, L.reads, T, <<>>)
    ELSE BatchResults(L, df, T.value, with_report)

\* lines 248-251
BatchPrepared(L, P, with_report) ==
    IF ~P.ok THEN Effect(L.svc, L.reads, P, <<>>)
    ELSE BatchScaled(L, P.value,
                     transform(L.svc.scaler, FeatureMatrix(P.value, L.svc.used_features)),
                     with_report)

\* lines 244-248
BatchLoaded(L, cbc_data_list, with_report) ==
    IF ~L.out.ok THEN L
    ELSE BatchPrepared(L, prepare_dataframe_for_inference(cbc_data_list, L.svc.used_features),
                       with_report)

\* CBCPredictionService.predict_batch
predict_batch(S, fs, dk, cbc_data_list, with_report) ==
    BatchLoaded(EnsureLoaded(S, fs, dk), cbc_data_list, with_report)

\* df[name] = series: every column labelled name is overwritten, a new
\* column is appended when there is none
AssignColumn(df, name, series) ==
    IF HasColumn(df, name)
    THEN [df EXCEPT !.rows = [r \in 1..Len(df.rows) |->
             [i \in 1..Len(df.cols) |->
                 IF df.cols[i] = name THEN series[r] ELSE df.rows[r][i]]]]
    ELSE [cols |-> Append(df.cols, name),
          rows |-> [r \in 1..Len(df.rows) |-> Append(df.rows[r], series[r])]]

\* lines 259-266
Annotated(df_prepared, predictions, probabilities, X) ==
    [out |-> Returned(
        [df_output |->
            AssignColumn(
                AssignColumn(df_prepared, "Predicted_Anemia",
                             [r \in 1..Len(predictions) |-> Num(10 * predictions[r])]),
                "Diagnosis", [r \in 1..Len(predictions) |-> Str(Label(predictions[r]))]),
         probabilities |-> probabilities]),
     calls |-> ClassifierCalls(X)]

\* lines 253-257
AnnotateScaled(df_prepared, m, T) ==
    IF ~T.ok THEN [out |-> T, calls |-> <<>>]
    ELSE Annotated(df_prepared, predict(m, T.value), predict_proba(m, T.value), T.value)

\* lines 249-253
AnnotatePrepared(P, m, sc, features) ==
    IF ~P.ok THEN [out |-> P, calls |-> <<>>]
    ELSE AnnotateScaled(P.value, m, transform(sc, FeatureMatrix(P.value, features)))

\* predict_and_annotate_dataframe -> (df_output, probabilities)
predict_and_annotate_dataframe(df, m, sc, features) ==
    AnnotatePrepared(prepare_dataframe_for_inference(df, features), m, sc, features)

\* ------------------------------------------------------------ file reading
\* Path(filename).suffix: from the last dot on, empty when the name has no
\* dot or the last dot is its first or last character
LastDot(cs) ==
    IF \E i \in 1..Len(cs) : cs[i] = "."
    THEN CHOOSE i \in 1..Len(cs) : cs[i] = "." /\ \A j \in (i + 1)..Len(cs) : cs[j] # "."
    ELSE 0

SuffixFrom(cs, i) == IF 1 < i /\ i < Len(cs) THEN SubSeq(cs, i, Len(cs)) ELSE <<>>

suffix(filename) == SuffixFrom(Chars[filename], LastDot(Chars[filename]))

\* Path(file.filename).suffix.lower()
file_extension(filename) == lower(suffix(filename))

valid_extensions == <<".csv", ".xlsx", ".xls", ".pdf">>

image_extensions == <<".jpg", ".jpeg", ".png", ".bmp", ".tiff">>

IsOneOf(ext, extensions) == \E i \in 1..Len(extensions) : Chars[extensions[i]] = ext

\* df.empty: no row or no column
empty(df) == Len(df.rows) = 0 \/ Len(df.cols) = 0

\* pd.concat(frames, ignore_index=True): the union of the columns in order of
\* first appearance, the rows stacked, absent cells missing
NewColumns(cols, more) == SelectSeq(more, LAMBDA c : \A i \in 1..Len(cols) : cols[i] # c)

RECURSIVE ConcatCols(_, _, _)
ConcatCols(frames, i, cols) ==
    IF i > Len(frames) THEN cols
    ELSE ConcatCols(frames, i + 1, cols \o NewColumns(cols, frames[i].cols))

Reindexed(df, cols) ==
    [r \in 1..Len(df.rows) |-> [j \in 1..Len(cols) |-> RowGet(df, df.rows[r], cols[j])]]

RECURSIVE ConcatRows(_, _, _)
ConcatRows(frames, i, cols) ==
    IF i > Len(frames) THEN <<>>
    ELSE Reindexed(frames[i], cols) \o ConcatRows(frames, i + 1, cols)

ConcatOver(frames, cols) == [cols |-> cols, rows |-> ConcatRows(frames, 1, cols)]

concat(frames) == ConcatOver(frames, ConcatCols(frames, 1, <<>>))

\* a reader that reports the last failure only
read_excel_file_last_error(content) ==
    IF content.openpyxl.ok THEN content.openpyxl
    ELSE IF content.xlrd.ok THEN content.xlrd
    ELSE Raised("ValueError", "Failed to read Excel file", <<content.xlrd.what>>)

\* read_excel_file: openpyxl, then xlrd; content holds what each engine
\* makes of the bytes
read_excel_file(content) ==
    IF content.openpyxl.ok THEN content.openpyxl
    ELSE IF content.xlrd.ok THEN content.xlrd
    ELSE Raised("ValueError", "Failed to read Excel file",
                <<content.openpyxl.what, content.xlrd.what>>)

\* pd.DataFrame(table[1:], columns=table[0])
FrameOf(table) == [cols |-> Head(table), rows |-> Tail(table)]

\* lines 117-124: the non-empty tables of the pages, in order
RECURSIVE PageTables(_, _)
PageTables(tables, i) ==
    IF i > Len(tables) THEN <<>>
    ELSE (IF Len(tables[i]) > 0 THEN <<FrameOf(tables[i])>> ELSE <<>>)
         \o PageTables(tables, i + 1)

RECURSIVE AllTables(_, _)
AllTables(pages, i) ==
    IF i > Len(pages) THEN <<>>
    ELSE PageTables(pages[i], 1) \o AllTables(pages, i + 1)

\* lines 134-157: tabula
PdfTabula(content) ==
    IF ~content.tabula.ok
    THEN Raised("ValueError", "Failed to extract table from PDF", <<content.tabula.what>>)
    ELSE IF Len(content.tabula.value) = 0
    THEN Raised("ValueError", "No tables found in PDF file", <<>>)
    ELSE IF Len(content.tabula.value) = 1 THEN Returned(content.tabula.value[1])
    ELSE Returned(concat(content.tabula.value))

\* lines 126-131
PdfPlumbed(content, all_tables) ==
    IF all_tables # <<>> THEN Returned(concat(all_tables)) ELSE PdfTabula(content)

\* read_pdf_file
read_pdf_file(content, available) ==
    IF ~available
    THEN Raised("ImportError", "PDF processing libraries not available", <<>>)
    ELSE IF ~content.pdfplumber.ok THEN PdfTabula(content)
    ELSE PdfPlumbed(content, AllTables(content.pdfplumber.value, 1))

ReadAs(content, ext, available) ==
    IF ext = Chars[".csv"] THEN content.csv
    ELSE IF ext \in {Chars[".xlsx"], Chars[".xls"]} THEN read_excel_file(content)
    ELSE IF ext = Chars[".pdf"] THEN read_pdf_file(content, available)
    ELSE Raised("ValueError", "Unsupported file format", <<ext>>)

\* read_file_by_extension
read_file_by_extension(content, filename, available) ==
    ReadAs(content, file_extension(filename), available)

\* lines 53-55
columns_lower(df) == [i \in 1..Len(df.cols) |-> lower(strip(Chars[df.cols[i]]))]

index(xs, x) == CHOOSE i \in 1..Len(xs) : xs[i] = x /\ \A j \in 1..(i - 1) : xs[j] # x

\* the label a Parameter cell becomes (the cells are texts or missing)
LabelOf(c) == IF c.k = "str" THEN c.s ELSE "nan"

\* lines 58-66
Transposed(df, param_col, value_col) ==
    [cols |-> [r \in 1..Len(df.rows) |-> LabelOf(df.rows[r][param_col])],
     rows |-> << [r \in 1..Len(df.rows) |-> df.rows[r][value_col]] >>]

\* a detection that knows the two headers in one spelling only
PivotExact(df, lowered) ==
    IF "Parameter" \in Range(df.cols) /\ "Value" \in Range(df.cols)
    THEN Transposed(df, index(lowered, Chars["parameter"]), index(lowered, Chars["value"]))
    ELSE df

Pivot(df, lowered) ==
    IF Chars["parameter"] \in Range(lowered) /\ Chars["value"] \in Range(lowered)
    THEN Transposed(df, index(lowered, Chars["parameter"]), index(lowered, Chars["value"]))
    ELSE df

\* detect_and_transform_csv
detect_and_transform_csv(df) == Pivot(df, columns_lower(df))

\* ----------------------------------------------------------------- database
CBC == "CBC Anemia Detection"

IMAGE == "Blood Cell Image Classification"

ModelNames == {CBC, IMAGE}

\* the committed rows (Model, Test, TestFile) and the files under uploads/
EmptyDb(models) ==
    [models |-> models, tests |-> 0, test_files |-> 0,
     tests_count |-> [m \in ModelNames |-> 0], exports |-> 0, images |-> 0]

\* the steps of a request that the environment can make raise
Faults == {"none", "read", "query", "flush", "mkdir", "to_csv", "open", "write", "commit"}

\* a result dict with success False
Failure(message, detail) == [success |-> FALSE, message |-> message, detail |-> detail]

\* the outcome of a request: the service after it, the asset reads it made,
\* what it returned or raised, its classifier calls, the database after it
Done(S, n, out, calls, D) == [svc |-> S, reads |-> n, out |-> out, calls |-> calls, db |-> D]

Fails(S, n, calls, D, message, detail) ==
    Done(S, n, Returned(Failure(message, detail)), calls, D)

Committed(D, name) ==
    [D EXCEPT !.tests = @ + 1, !.test_files = @ + 1, !.tests_count[name] = @ + 1]

Exported(D) == [D EXCEPT !.exports = @ + 1]

\* lines 411-459 and 570-611: the save, up to its except clause.  A step
\* that raises leaves the session to be rolled back; the exported file is
\* on disk once to_csv has returned.
SaveCbc(D, fault) ==
    IF fault = "query" THEN [out |-> Raised("SQLAlchemyError", "query", <<>>), db |-> D]
    ELSE IF CBC \notin D.models THEN [out |-> Returned([found |-> FALSE]), db |-> D]
    ELSE IF fault = "flush" THEN [out |-> Raised("SQLAlchemyError", "flush", <<>>), db |-> D]
    ELSE IF fault = "mkdir" THEN [out |-> Raised("OSError", "mkdir", <<>>), db |-> D]
    ELSE IF fault = "to_csv" THEN [out |-> Raised("OSError", "to_csv", <<>>), db |-> D]
    ELSE IF fault = "commit"
    THEN [out |-> Raised("SQLAlchemyError", "commit", <<>>), db |-> Exported(D)]
    ELSE [out |-> Returned([found |-> TRUE, test_id |-> D.tests + 1]),
          db |-> Committed(Exported(D), CBC)]

\* lines 380-401 and 540-560: one entry of the results (i is 1-based)
DisplayResult(df, probabilities, i) ==
    [row_index       |-> i - 1,
     prediction      |-> RowGet(df, df.rows[i], "Diagnosis").s,
     prediction_code |-> RowGet(df, df.rows[i], "Predicted_Anemia").n \div 10,
     probability     |-> probabilities[i][2] * 10,
     values          |-> ValuesOf(df, df.rows[i]),
     report          |-> build_report(df, df.rows[i],
                                      RowGet(df, df.rows[i], "Predicted_Anemia").n \div 10)]

DisplayResults(df, probabilities) ==
    [i \in 1..Len(df.rows) |-> DisplayResult(df, probabilities, i)]

\* ------------------------------------------------------- process_csv_upload
\* lines 461-476
CsvSaved(L, A, ext, SV) ==
    IF ~SV.out.ok
    THEN Fails(L.svc, L.reads, A.calls, SV.db, "Error saving test to database", SV.out.what)
    ELSE IF ~SV.out.value.found
    THEN Fails(L.svc, L.reads, A.calls, SV.db, "CBC Anemia Detection model not found.", "")
    ELSE Done(L.svc, L.reads,
              Returned([success |-> TRUE,
                        message |-> "CBC analysis completed successfully!",
                        analyzed |-> Len(A.out.value.df_output.rows),
                        kind |-> upper(ext),
                        results |-> DisplayResults(A.out.value.df_output,
                                                   A.out.value.probabilities),
                        test_id |-> SV.out.value.test_id]),
              A.calls, SV.db)

\* lines 372-409
CsvAnnotated(L, A, K, ext) ==
    IF ~A.out.ok THEN Done(L.svc, L.reads, A.out, A.calls, K.db)
    ELSE IF Len(A.out.value.df_output.rows) = 0
    THEN Fails(L.svc, L.reads, A.calls, K.db, "No valid data rows found.", "")
    ELSE IF \E r \in 1..Len(A.out.value.df_output.rows) :
               ~ValuesOk(A.out.value.df_output, A.out.value.df_output.rows[r])
    THEN Done(L.svc, L.reads, Raised("ValueError", "could_not_convert", <<>>), A.calls, K.db)
    ELSE IF ~K.has_db
    THEN Fails(L.svc, L.reads, A.calls, K.db,
               "Database session is required to save test results.", "")
    ELSE CsvSaved(L, A, ext, SaveCbc(K.db, K.fault))

\* lines 361-370
CsvLoaded(L, df, K, ext) ==
    IF ~L.out.ok THEN Done(L.svc, L.reads, L.out, <<>>, K.db)
    ELSE CsvAnnotated(L, predict_and_annotate_dataframe(df, L.svc.model, L.svc.scaler,
                                                        L.svc.used_features), K, ext)

\* a parse whose table is taken on without the look at its size
CsvParsedUnchecked(S, fs, dk, K, ext, R) ==
    IF ~R.ok THEN Fails(S, 0, <<>>, K.db, "Error reading file", R.what)
    ELSE CsvLoaded(EnsureLoaded(S, fs, dk), detect_and_transform_csv(R.value), K, ext)

\* lines 343-358
CsvParsed(S, fs, dk, K, ext, R) ==
    IF ~R.ok THEN Fails(S, 0, <<>>, K.db, "Error reading file", R.what)
    ELSE IF empty(R.value) THEN Fails(S, 0, <<>>, K.db, "The file contains no data.", "")
    ELSE CsvLoaded(EnsureLoaded(S, fs, dk), detect_and_transform_csv(R.value), K, ext)

\* an upload read before its name is looked at
CsvNamedReadFirst(S, fs, dk, pdf, file, K, ext) ==
    IF K.fault = "read" THEN Done(S, 0, Raised("OSError", "read", <<>>), <<>>, K.db)
    ELSE IF file.content.size = 0
    THEN Fails(S, 0, <<>>, K.db, "The uploaded file is empty.", "")
    ELSE IF ~IsOneOf(ext, valid_extensions)
    THEN Fails(S, 0, <<>>, K.db, "Invalid file type.", valid_extensions)
    ELSE CsvParsed(S, fs, dk, K, ext,
                   read_file_by_extension(file.content, file.filename, pdf))

\* lines 328-344
CsvNamed(S, fs, dk, pdf, file, K, ext) ==
    IF ~IsOneOf(ext, valid_extensions)
    THEN Fails(S, 0, <<>>, K.db, "Invalid file type.", valid_extensions)
    ELSE IF K.fault = "read" THEN Done(S, 0, Raised("OSError", "read", <<>>), <<>>, K.db)
    ELSE IF file.content.size = 0
    THEN Fails(S, 0, <<>>, K.db, "The uploaded file is empty.", "")
    ELSE CsvParsed(S, fs, dk, K, ext,
                   read_file_by_extension(file.content, file.filename, pdf))

\* lines 317-325: the body of the try
CsvBody(S, fs, dk, pdf, file, K) ==
    IF file = NoneV \/ file.filename = ""
    THEN Fails(S, 0, <<>>, K.db, "No file was selected.", "")
    ELSE CsvNamed(S, fs, dk, pdf, file, K, file_extension(file.filename))

\* the exception classes met that derive from ValueError
IsValueError(exc) == exc \in {"ValueError"}

\* a handler that lacks the final except clause
ExceptValueErrorOnly(o, validation, other) ==
    IF o.out.ok \/ ~IsValueError(o.out.exc) THEN o
    ELSE [o EXCEPT !.out = Returned(Failure(validation, o.out.what))]

\* "except ValueError ... except Exception": rollback, then a failure result
Except(o, validation, other) ==
    IF o.out.ok THEN o
    ELSE IF IsValueError(o.out.exc)
    THEN [o EXCEPT !.out = Returned(Failure(validation, o.out.what))]
    ELSE [o EXCEPT !.out = Returned(Failure(other, o.out.what))]

\* CBCPredictionService.process_csv_upload; K: the session (or None), the
\* committed database, the step that raises
process_csv_upload(S, fs, dk, pdf, file, K) ==
    Except(CsvBody(S, fs, dk, pdf, file, K), "File validation error", "Error processing file")

\* ----------------------------------------------------- process_manual_input
\* lines 612-627
ManualSaved(L, A, SV) ==
    IF ~SV.out.ok
    THEN Fails(L.svc, L.reads, A.calls, SV.db, "Error saving test to database", SV.out.what)
    ELSE IF ~SV.out.value.found
    THEN Fails(L.svc, L.reads, A.calls, SV.db, "CBC Anemia Detection model not found.", "")
    ELSE Done(L.svc, L.reads,
              Returned([success |-> TRUE,
                        message |-> "CBC analysis completed successfully!",
                        result  |-> DisplayResult(A.out.value.df_output,
                                                  A.out.value.probabilities, 1),
                        test_id |-> SV.out.value.test_id]),
              A.calls, SV.db)

\* lines 533-567
ManualAnnotated(L, A, K) ==
    IF ~A.out.ok THEN Done(L.svc, L.reads, A.out, A.calls, K.db)
    ELSE IF Len(A.out.value.df_output.rows) = 0
    THEN Fails(L.svc, L.reads, A.calls, K.db, "Invalid CBC values provided.", "")
    ELSE IF ~ValuesOk(A.out.value.df_output, A.out.value.df_output.rows[1])
    THEN Done(L.svc, L.reads, Raised("ValueError", "could_not_convert", <<>>), A.calls, K.db)
    ELSE IF ~K.has_db
    THEN Fails(L.svc, L.reads, A.calls, K.db,
               "Database session is required to save test results.", "")
    ELSE ManualSaved(L, A, SaveCbc(K.db, K.fault))

\* lines 522-531
ManualLoaded(L, df_input, K) ==
    IF ~L.out.ok THEN Done(L.svc, L.reads, L.out, <<>>, K.db)
    ELSE ManualAnnotated(L, predict_and_annotate_dataframe(df_input, L.svc.model, L.svc.scaler,
                                                           L.svc.used_features), K)

\* lines 510-519: the single-row table of the eight values
ManualFrame(values) == [cols |-> ValueNames, rows |-> <<values>>]

\* CBCPredictionService.process_manual_input
process_manual_input(S, fs, dk, values, K) ==
    Except(ManualLoaded(EnsureLoaded(S, fs, dk), ManualFrame(values), K),
           "Validation error", "Error during CBC analysis")

\* ----------------------------------------------------- process_image_upload
ImageStored(D) == [D EXCEPT !.images = @ + 1]

ImageOut(out, D) == [out |-> out, db |-> D]

\* lines 689-731, the image file written
ImageWritten(K, D) ==
    IF ~K.has_db
    THEN ImageOut(Returned(Failure("Database session not provided", "")), D)
    ELSE IF K.fault = "query" THEN ImageOut(Raised("SQLAlchemyError", "query", <<>>), D)
    ELSE IF IMAGE \notin D.models
    THEN ImageOut(Returned(Failure("Blood Cell Image Classification model not found.", "")), D)
    ELSE IF K.fault = "flush" THEN ImageOut(Raised("SQLAlchemyError", "flush", <<>>), D)
    ELSE IF K.fault = "commit" THEN ImageOut(Raised("SQLAlchemyError", "commit", <<>>), D)
    ELSE ImageOut(Returned([success |-> TRUE,
                            message |-> "Blood cell image uploaded successfully!",
                            test_id |-> D.tests + 1]),
                  Committed(D, IMAGE))

\* lines 669-687
ImageNamed(file, K, ext) ==
    IF ~IsOneOf(ext, image_extensions)
    THEN ImageOut(Returned(Failure("Invalid file type.", image_extensions)), K.db)
    ELSE IF K.fault = "mkdir" THEN ImageOut(Raised("OSError", "mkdir", <<>>), K.db)
    ELSE IF K.fault = "read" THEN ImageOut(Raised("OSError", "read", <<>>), K.db)
    ELSE IF K.fault = "open" THEN ImageOut(Raised("OSError", "open", <<>>), K.db)
    ELSE IF K.fault = "write" THEN ImageOut(Raised("OSError", "write", <<>>), ImageStored(K.db))
    ELSE ImageWritten(K, ImageStored(K.db))

\* lines 663-667
ImageBody(file, K) ==
    IF file = NoneV \/ file.filename = ""
    THEN ImageOut(Returned(Failure("No file was selected.", "")), K.db)
    ELSE ImageNamed(file, K, file_extension(file.filename))

\* lines 733-739
ImageExcept(o) ==
    IF o.out.ok THEN o
    ELSE [o EXCEPT !.out = Returned(Failure("Error uploading image", o.out.what))]

\* BloodImageAnalysisService.process_image_upload
process_image_upload(file, K) == ImageExcept(ImageBody(file, K))

\* ----------------------------------------------------------- predict_single
\* line 221 hands the classifier the DataFrame itself: every column of the
\* normalized table, unscaled.  What the classifier makes of a DataFrame
\* depends on the library build: it raises, or (takes_frames) it reads the
\* values when they are numbers and as many as it was fitted on.
FrameValues(df) ==
    [r \in 1..Len(df.rows) |-> [i \in 1..Len(df.cols) |-> ParseCell(df.rows[r][i]).n]]

FrameCall(fn, df) == [fn |-> fn, dataframe |-> df]

FrameAccepted(df, n_features, takes_frames) ==
    /\ takes_frames
    /\ Len(df.cols) = n_features
    /\ \A r \in 1..Len(df.rows) : \A i \in 1..Len(df.cols) : df.rows[r][i].k = "num"

\* lines 223-240
SingleResult(L, df, prediction, probabilities, with_report) ==
    IF with_report
    THEN Effect(L.svc, L.reads,
                Raised("TypeError", "build_report() takes 1 positional argument", <<>>),
                <<FrameCall("predict", df), FrameCall("predict_proba", df)>>)
    ELSE Effect(L.svc, L.reads,
                Returned([prediction       |-> prediction,
                          prediction_label |-> Label(prediction),
                          confidence       |-> Max(probabilities[1], probabilities[2]) * 10,
                          confidence_raw   |-> Max(probabilities[1], probabilities[2]),
                          probabilities    |-> [normal |-> probabilities[1],
                                                anemia |-> probabilities[2]]]),
                <<FrameCall("predict", df), FrameCall("predict_proba", df)>>)

\* lines 221-222
SinglePrepared(L, P, with_report, takes_frames) ==
    IF ~P.ok THEN Effect(L.svc, L.reads, P, <<>>)
    ELSE IF ~FrameAccepted(P.value, Len(L.svc.used_features), takes_frames)
    THEN Effect(L.svc, L.reads, Raised("TypeError", "rejected_input", <<>>),
                <<FrameCall("predict", P.value)>>)
    ELSE SingleResult(L, P.value, predict(L.svc.model, FrameValues(P.value))[1],
                      predict_proba(L.svc.model, FrameValues(P.value))[1], with_report)

\* lines 215-219
SingleLoaded(L, cbc_data, with_report, takes_frames) ==
    IF ~L.out.ok THEN L
    ELSE SinglePrepared(L, prepare_dataframe_for_inference(cbc_data, L.svc.used_features),
                        with_report, takes_frames)

\* CBCPredictionService.predict_single; cbc_data as the one-row table
\* pd.DataFrame([cbc_data])
predict_single(S, fs, dk, cbc_data, with_report, takes_frames) ==
    SingleLoaded(EnsureLoaded(S, fs, dk), cbc_data, with_report, takes_frames)

\* ----------------------------------------------------------- input tables
\* The asset bundles the files on disk may hold.
BundleA == [model |-> [threshold |-> 225, sure |-> 9],
            scaler |-> [shift |-> 5],
            used_features |-> <<"HGB", "MCV">>]

BundleB == [model |-> [threshold |-> 250, sure |-> 6],
            scaler |-> [shift |-> 7],
            used_features |-> <<"MCV", "HGB", "PLT">>]

Bundles == {BundleA, BundleB}

Measured == {Num(90), NaN, Str("13.5"), Str("abc")}

Counted == {Num(90), NaN, Str("abc")}

Brief == {Num(135), NaN}

Labelled == {Str("Anemia"), Num(10)}

\* headers of the uploaded tables: each column with the values it may hold
Headers ==
    { << <<"HGB", Measured>>, <<"MCV", Measured>> >>,
      << <<"Hb", Counted>>, <<" MCV ", Counted>> >>,
      << <<"MCV", Counted>>, <<"Hemoglobin", Brief>>, <<"Platelet Count", Brief>> >>,
      << <<"hgb", Counted>>, <<"HGB", Brief>>, <<"MCV", Brief>> >>,
      << <<"HGB", Counted>>, <<"MCV", Brief>>, <<"Diagnosis", Labelled>> >>,
      << <<"MCV", Brief>>, <<"Predicted_Anemia", Labelled>>, <<"HGB", Counted>> >>,
      << <<"HGB", Counted>>, <<"Notes", Counted>> >> }

RowsOf(h) == {row \in [1..Len(h) -> UNION {h[i][2] : i \in 1..Len(h)}] :
                 \A i \in 1..Len(h) : row[i] \in h[i][2]}

TablesOf(h, maxrows) ==
    {[cols |-> [i \in 1..Len(h) |-> h[i][1]], rows |-> rows] :
        rows \in UNION {[1..n -> RowsOf(h)] : n \in 0..maxrows}}

Tables == UNION {TablesOf(h, MaxRows) : h \in Headers}

Idle == [op |-> "idle"]

AllFiles == {"MODEL_PATH", "SCALER_PATH", "FEATURES_PTH"}

\* ------------------------------------------------ the normalizer, in isolation
\* A loaded service and one table; each operation is applied to it once.
InitPrepare ==
    /\ \E b \in Bundles :
         /\ disk = b
         /\ model = b.model /\ scaler = b.scaler /\ used_features = b.used_features
    /\ _loaded = TRUE /\ _available = TRUE
    /\ files = AllFiles /\ reads = 1 /\ load_failed = FALSE
    /\ db = EmptyDb(ModelNames)
    /\ input \in [df : Tables]
    /\ last = Idle /\ clf_in = <<>>
    /\ pc = <<>> /\ fetched = <<>>
    /\ PDF_AVAILABLE = TRUE

Prepare ==
    /\ last = Idle
    /\ last' = [op |-> "prepare_dataframe_for_inference",
                out |-> prepare_dataframe_for_inference(input.df, used_features)]
    /\ UNCHANGED <<model, scaler, used_features, _loaded, _available, files, disk, reads,
                   load_failed, db, input, clf_in, pc, fetched, PDF_AVAILABLE>>

\* what an operation leaves behind: its outcome and its classifier calls
Record(op, e) ==
    /\ last' = [op |-> op, out |-> e.out]
    /\ clf_in' = e.calls

PredictBatchOnce(with_report) ==
    /\ last = Idle
    /\ Record("predict_batch", predict_batch(Svc, files, disk, input.df, with_report))
    /\ UNCHANGED <<model, scaler, used_features, _loaded, _available, files, disk, reads,
                   load_failed, db, input, pc, fetched, PDF_AVAILABLE>>

Annotate ==
    /\ last = Idle
    /\ Record("predict_and_annotate_dataframe",
              predict_and_annotate_dataframe(input.df, model, scaler, used_features))
    /\ UNCHANGED <<model, scaler, used_features, _loaded, _available, files, disk, reads,
                   load_failed, db, input, pc, fetched, PDF_AVAILABLE>>

NextPrepare ==
    \/ Prepare
    \/ \E with_report \in BOOLEAN : PredictBatchOnce(with_report)
    \/ Annotate

SpecPrepare == InitPrepare /\ [][NextPrepare]_vars

\* --------------------------------------------------------- the service, live
\* most saved tests, exported files and stored images
MaxUploads == 2

\* the sample record RBC 3.0, HGB 9.0, PCV 30, MCV 70, MCH 25, MCHC 30, TLC 6,
\* PLT 200
Example == <<Num(30), Num(90), Num(300), Num(700), Num(250), Num(300), Num(60), Num(2000)>>

\* one-sample inputs (pd.DataFrame([cbc_data])) and small batches
Samples ==
    { ManualFrame(Example),
      [cols |-> <<"HGB", "MCV">>, rows |-> << <<Num(90), Num(90)>> >>],
      [cols |-> <<"MCV", "HGB">>, rows |-> << <<Num(135), Num(90)>> >>],
      [cols |-> <<"MCV", "HGB", "PLT">>, rows |-> << <<Num(135), Num(90), Num(135)>> >>],
      [cols |-> <<"Hb", " MCV ", "Notes">>, rows |-> << <<Str("9.0"), Num(90), Str("x")>> >>],
      [cols |-> <<"HGB">>, rows |-> << <<Num(90)>> >>] }

Batches ==
    Samples \cup
    { [cols |-> <<"Hb", " MCV ">>, rows |-> << <<Num(90), Num(90)>>, <<NaN, Num(135)>>,
                                                <<Num(135), Num(135)>> >>],
      [cols |-> <<"HGB", "MCV">>, rows |-> << <<Str("abc"), Num(90)>> >>],
      [cols |-> <<"HGB", "MCV">>, rows |-> << <<NaN, Num(90)>> >>] }

\* the eight values of a manual entry: RBC HGB PCV MCV MCH MCHC TLC PLT
ManualInputs ==
    { Example,
      <<Num(45), Num(90), Num(40), Num(90), Num(30), Num(330), Num(60), Num(25)>>,
      <<Num(45), NaN, Num(400), Num(900), Num(300), Num(330), Num(60), Num(2500)>> }

\* what the parsers make of the bytes of an upload
Unreadable == Raised("ParserError", "unreadable", <<>>)

Blank == [size |-> 1, csv |-> Unreadable, openpyxl |-> Unreadable, xlrd |-> Unreadable,
          pdfplumber |-> Unreadable, tabula |-> Unreadable]

Horizontal == [cols |-> <<"Hb", " MCV ", "Platelet Count">>,
               rows |-> << <<Num(90), Num(90), Num(135)>>, <<Num(135), NaN, Num(90)>> >>]

Vertical == [cols |-> <<"Parameter", "Value">>,
             rows |-> << <<Str("HGB"), Num(90)>>, <<Str("MCV"), Num(135)>>,
                         <<Str("PLT"), Num(90)>> >>]

Untyped == [cols |-> <<"HGB", "MCV", "PLT", "RBC">>,
            rows |-> << <<Num(90), Num(90), Num(90), Str("abc")>> >>]

Printed == << <<"HGB", "MCV", "PLT">>, <<Str("9.0"), Str("13.5"), Str("9.0")>> >>

Uploads ==
    { NoneV,
      [filename |-> "", content |-> Blank],
      [filename |-> "cbc.docx", content |-> Blank],
      [filename |-> "cbc", content |-> Blank],
      [filename |-> "cbc.docx", content |-> [Blank EXCEPT !.size = 0]],
      [filename |-> "cbc.docx", content |-> [Blank EXCEPT !.csv = Returned(Horizontal)]],
      [filename |-> ".csv", content |-> [Blank EXCEPT !.csv = Returned(Horizontal)]],
      [filename |-> "cbc.xlsx",
       content |-> [Blank EXCEPT !.openpyxl = Returned([cols |-> <<>>, rows |-> <<>>])]],
      [filename |-> "cbc.csv", content |-> [Blank EXCEPT !.size = 0]],
      [filename |-> "cbc.csv", content |-> Blank],
      [filename |-> "cbc.csv", content |-> [Blank EXCEPT !.csv = Returned(Horizontal)]],
      [filename |-> "CBC.CSV", content |-> [Blank EXCEPT !.csv = Returned(Vertical)]],
      [filename |-> "cbc.csv", content |-> [Blank EXCEPT !.csv = Returned(Untyped)]],
      [filename |-> "cbc.csv",
       content |-> [Blank EXCEPT !.csv = Returned([cols |-> <<"HGB", "MCV">>, rows |-> <<>>])]],
      [filename |-> "cbc.xlsx", content |-> [Blank EXCEPT !.openpyxl = Returned(Horizontal)]],
      [filename |-> "cbc.xls", content |-> [Blank EXCEPT !.xlrd = Returned(Horizontal)]],
      [filename |-> "cbc.xls", content |-> Blank],
      [filename |-> "cbc.pdf",
       content |-> [Blank EXCEPT !.pdfplumber = Returned(<< <<Printed>> >>)]],
      [filename |-> "cbc.pdf",
       content |-> [Blank EXCEPT !.pdfplumber = Returned(<< << <<>> >>, <<Printed, Printed>> >>)]],
      [filename |-> "cbc.pdf",
       content |-> [Blank EXCEPT !.pdfplumber = Returned(<< <<>> >>),
                                 !.tabula = Returned(<<Horizontal, Vertical>>)]],
      [filename |-> "cbc.pdf", content |-> [Blank EXCEPT !.tabula = Returned(<<Horizontal>>)]],
      [filename |-> "cbc.pdf", content |-> [Blank EXCEPT !.tabula = Returned(<<>>)]],
      [filename |-> "cbc.pdf", content |-> Blank] }

Images ==
    { NoneV,
      [filename |-> "", content |-> Blank],
      [filename |-> "scan.png", content |-> Blank],
      [filename |-> "scan.JPG", content |-> Blank],
      [filename |-> "scan.gif", content |-> Blank] }

\* a call that loads the assets has raised
LoadRaised(out) == ~out.ok /\ out.exc \in {"FileNotFoundError", "RuntimeError"}

\* a service call ends: the object's fields, the asset reads, the outcome
Finish(op, e) ==
    /\ model' = e.svc.model /\ scaler' = e.svc.scaler
    /\ used_features' = e.svc.used_features /\ _loaded' = e.svc._loaded
    /\ reads' = reads + e.reads
    /\ last' = [op |-> op, out |-> e.out]
    /\ clf_in' = e.calls

Ready == last = Idle /\ pc = <<>>

CanStore == db.tests < MaxUploads /\ db.exports < MaxUploads /\ db.images < MaxUploads

LoadModel ==
    /\ Ready
    /\ Finish("load_model", load_model(Svc, files, disk))
    /\ load_failed' = (load_failed \/ LoadRaised(load_model(Svc, files, disk).out))
    /\ input' = <<>>
    /\ UNCHANGED <<_available, files, disk, db, pc, fetched, PDF_AVAILABLE>>

PredictSingle ==
    /\ Ready
    /\ \E cbc_data \in Samples, with_report \in BOOLEAN, takes_frames \in BOOLEAN :
         /\ input' = [df |-> cbc_data, with_report |-> with_report]
         /\ Finish("predict_single", predict_single(Svc, files, disk, cbc_data, with_report, takes_frames))
         /\ load_failed' = (load_failed \/
               LoadRaised(predict_single(Svc, files, disk, cbc_data, with_report, takes_frames).out))
    /\ UNCHANGED <<_available, files, disk, db, pc, fetched, PDF_AVAILABLE>>

PredictBatch ==
    /\ Ready
    /\ \E cbc_data_list \in Batches, with_report \in BOOLEAN :
         /\ input' = [df |-> cbc_data_list, with_report |-> with_report]
         /\ Finish("predict_batch", predict_batch(Svc, files, disk, cbc_data_list, with_report))
         /\ load_failed' = (load_failed \/
               LoadRaised(predict_batch(Svc, files, disk, cbc_data_list, with_report).out))
    /\ UNCHANGED <<_available, files, disk, db, pc, fetched, PDF_AVAILABLE>>

ProcessCsvUpload ==
    /\ Ready /\ CanStore
    /\ \E file \in Uploads, has_db \in BOOLEAN, fault \in Faults :
         /\ input' = [file |-> file, has_db |-> has_db, fault |-> fault]
         /\ Finish("process_csv_upload",
                   process_csv_upload(Svc, files, disk, PDF_AVAILABLE, file,
                                      [has_db |-> has_db, db |-> db, fault |-> fault]))
         /\ db' = process_csv_upload(Svc, files, disk, PDF_AVAILABLE, file,
                                     [has_db |-> has_db, db |-> db, fault |-> fault]).db
    /\ UNCHANGED <<_available, files, disk, load_failed, pc, fetched, PDF_AVAILABLE>>

ProcessManualInput ==
    /\ Ready /\ CanStore
    /\ \E values \in ManualInputs, has_db \in BOOLEAN, fault \in Faults :
         /\ input' = [df |-> ManualFrame(values), has_db |-> has_db, fault |-> fault]
         /\ Finish("process_manual_input",
                   process_manual_input(Svc, files, disk, values,
                                        [has_db |-> has_db, db |-> db, fault |-> fault]))
         /\ db' = process_manual_input(Svc, files, disk, values,
                                       [has_db |-> has_db, db |-> db, fault |-> fault]).db
    /\ UNCHANGED <<_available, files, disk, load_failed, pc, fetched, PDF_AVAILABLE>>

ProcessImageUpload ==
    /\ Ready /\ CanStore
    /\ \E file \in Images, has_db \in BOOLEAN, fault \in Faults :
         /\ input' = [file |-> file, has_db |-> has_db, fault |-> fault]
         /\ last' = [op |-> "process_image_upload",
                     out |-> process_image_upload(file, [has_db |-> has_db, db |-> db,
                                                         fault |-> fault]).out]
         /\ db' = process_image_upload(file, [has_db |-> has_db, db |-> db,
                                              fault |-> fault]).db
    /\ UNCHANGED <<model, scaler, used_features, _loaded, _available, files, disk, reads,
                   load_failed, clf_in, pc, fetched, PDF_AVAILABLE>>

\* the caller has its answer; the next request may come
Respond ==
    /\ last # Idle /\ pc = <<>>
    /\ last' = Idle /\ clf_in' = <<>> /\ input' = <<>>
    /\ UNCHANGED <<model, scaler, used_features, _loaded, _available, files, disk, reads,
                   load_failed, db, pc, fetched, PDF_AVAILABLE>>

\* an asset file is deployed
InstallAsset ==
    /\ Ready
    /\ \E f \in AllFiles \ files : files' = files \cup {f}
    /\ UNCHANGED <<model, scaler, used_features, _loaded, _available, disk, reads,
                   load_failed, db, input, last, clf_in, pc, fetched, PDF_AVAILABLE>>

\* the asset files are replaced by those of another training run
ReplaceAssets ==
    /\ Ready
    /\ \E b \in Bundles \ {disk} : disk' = b
    /\ UNCHANGED <<model, scaler, used_features, _loaded, _available, files, reads,
                   load_failed, db, input, last, clf_in, pc, fetched, PDF_AVAILABLE>>

\* CBCPredictionService.__init__ and BloodImageAnalysisService.__init__
Constructed ==
    /\ model = NoneV /\ scaler = NoneV /\ used_features = NoFeatures
    /\ _loaded = FALSE
    /\ reads = 0 /\ load_failed = FALSE
    /\ input = <<>> /\ last = Idle /\ clf_in = <<>>
    /\ pc = <<>> /\ fetched = <<>>

\* the asset bundle's life: deployment, loading, prediction
InitLoad ==
    /\ Constructed
    /\ _available \in BOOLEAN /\ PDF_AVAILABLE = TRUE
    /\ files \in SUBSET AllFiles /\ disk \in Bundles
    /\ db = EmptyDb(ModelNames)

NextLoad ==
    \/ InstallAsset \/ ReplaceAssets
    \/ LoadModel
    \/ PredictSingle \/ PredictBatch
    \/ Respond

SpecLoad == InitLoad /\ [][NextLoad]_vars

\* the entry points, from a fresh service
Init ==
    /\ Constructed
    /\ _available \in BOOLEAN /\ PDF_AVAILABLE \in BOOLEAN
    /\ files \in {AllFiles, {"MODEL_PATH"}} /\ disk \in Bundles
    /\ \E models \in {ModelNames, {}} : db = EmptyDb(models)

Next ==
    \/ PredictSingle \/ PredictBatch
    \/ ProcessCsvUpload \/ ProcessManualInput \/ ProcessImageUpload
    \/ Respond

Spec == Init /\ [][Next]_vars

\* ------------------------------------------- first use, requests in parallel
\* Each request runs "if not self._loaded: self.load_model()" (lines 215,
\* 244, 361, 522) and load_model (lines 206-211) step by step; nothing in the
\* service keeps two requests from being inside load_model together.
NumRequests == 2

Requests == 1..NumRequests

At(t, where) == pc # <<>> /\ pc[t] = where

Goto(t, where) == pc' = [pc EXCEPT ![t] = where]

\* "if not self._loaded:" of the entry point
CheckLoaded(t) ==
    /\ At(t, "check")
    /\ Goto(t, IF _loaded THEN "use" ELSE "load_model")
    /\ UNCHANGED <<model, scaler, used_features, _loaded, _available, files, disk, reads,
                   load_failed, db, input, last, clf_in, fetched, PDF_AVAILABLE>>

\* lines 206-209
EnterLoadModel(t) ==
    /\ At(t, "load_model")
    /\ Goto(t, IF ~_available THEN "raised" ELSE IF _loaded THEN "use" ELSE "read")
    /\ UNCHANGED <<model, scaler, used_features, _loaded, _available, files, disk, reads,
                   load_failed, db, input, last, clf_in, fetched, PDF_AVAILABLE>>

\* line 210, right-hand side: load_model_and_assets()
ReadAssets(t) ==
    /\ At(t, "read")
    /\ fetched' = [fetched EXCEPT ![t] = load_model_and_assets(files, disk)]
    /\ reads' = reads + (IF load_model_and_assets(files, disk).ok THEN 1 ELSE 0)
    /\ load_failed' = (load_failed \/ ~load_model_and_assets(files, disk).ok)
    /\ Goto(t, IF load_model_and_assets(files, disk).ok THEN "assign" ELSE "raised")
    /\ UNCHANGED <<model, scaler, used_features, _loaded, _available, files, disk,
                   db, input, last, clf_in, PDF_AVAILABLE>>

\* line 210, left-hand side: the three attributes are stored
AssignBundle(t) ==
    /\ At(t, "assign")
    /\ model' = fetched[t].value.model
    /\ scaler' = fetched[t].value.scaler
    /\ used_features' = fetched[t].value.used_features
    /\ Goto(t, "set_flag")
    /\ UNCHANGED <<_loaded, _available, files, disk, reads, load_failed, db, input, last,
                   clf_in, fetched, PDF_AVAILABLE>>

\* line 211
SetLoaded(t) ==
    /\ At(t, "set_flag")
    /\ _loaded' = TRUE
    /\ Goto(t, "use")
    /\ UNCHANGED <<model, scaler, used_features, _available, files, disk, reads,
                   load_failed, db, input, last, clf_in, fetched, PDF_AVAILABLE>>

\* the asset files are replaced while requests are being served
Redeploy ==
    /\ pc # <<>>
    /\ \E b \in Bundles \ {disk} : disk' = b
    /\ UNCHANGED <<model, scaler, used_features, _loaded, _available, files, reads,
                   load_failed, db, input, last, clf_in, pc, fetched, PDF_AVAILABLE>>

InitConc ==
    /\ model = NoneV /\ scaler = NoneV /\ used_features = NoFeatures
    /\ _loaded = FALSE /\ reads = 0 /\ load_failed = FALSE
    /\ input = <<>> /\ last = Idle /\ clf_in = <<>>
    /\ pc = [t \in Requests |-> "check"]
    /\ fetched = [t \in Requests |-> NoneV]
    /\ _available \in BOOLEAN /\ PDF_AVAILABLE = TRUE
    /\ files \in {AllFiles, {"MODEL_PATH", "SCALER_PATH"}} /\ disk \in Bundles
    /\ db = EmptyDb(ModelNames)

NextConc ==
    \/ \E t \in Requests :
          \/ CheckLoaded(t) \/ EnterLoadModel(t) \/ ReadAssets(t)
          \/ AssignBundle(t) \/ SetLoaded(t)
    \/ Redeploy

SpecConc == InitConc /\ [][NextConc]_vars

\* ------------------------------------------- the report synthesizer, in isolation
\* One annotated row: its label and the values the report reads.  The MCV,
\* MCHC and RDW values lie on, just below and just above the thresholds; a
\* value may be missing, a text that spells a number, a text that does not,
\* and the RDW column may be absent (it is no required feature).
McvValues == {NaN, Num(799), Num(800), Num(900), Num(1000), Num(1001), Str("70"), Str("abc")}

MchcValues == {NaN, Num(319), Num(320)}

RdwValues == {NaN, Num(145), Num(146)}

HgbValues == {NaN, Num(90)}

ReportRows ==
    {[df |-> [cols |-> <<"HGB", "MCV", "MCHC", "RDW">>, rows |-> << <<h, v, c, w>> >>],
      pred |-> p] : h \in HgbValues, v \in McvValues, c \in MchcValues,
                    w \in RdwValues, p \in {0, 1}}
    \cup
    {[df |-> [cols |-> <<"HGB", "MCHC">>, rows |-> << <<h, c>> >>], pred |-> p] :
        h \in HgbValues, c \in MchcValues, p \in {0, 1}}

InitReport ==
    /\ model = NoneV /\ scaler = NoneV /\ used_features = NoFeatures
    /\ _loaded = FALSE /\ _available = TRUE
    /\ files = AllFiles /\ disk = BundleA /\ reads = 0 /\ load_failed = FALSE
    /\ db = EmptyDb(ModelNames)
    /\ input \in ReportRows
    /\ last = Idle /\ clf_in = <<>>
    /\ pc = <<>> /\ fetched = <<>>
    /\ PDF_AVAILABLE = TRUE

\* build_report(row) on the row
BuildReport ==
    /\ last = Idle
    /\ last' = [op |-> "build_report",
                out |-> Returned(build_report(input.df, input.df.rows[1], input.pred))]
    /\ UNCHANGED <<model, scaler, used_features, _loaded, _available, files, disk, reads,
                   load_failed, db, input, clf_in, pc, fetched, PDF_AVAILABLE>>

\* _anemia_phenotype(row) on the row
AnemiaPhenotype ==
    /\ last = Idle
    /\ last' = [op |-> "_anemia_phenotype",
                out |-> Returned(_anemia_phenotype(_val(input.df, input.df.rows[1], "MCV"),
                                                   _val(input.df, input.df.rows[1], "MCHC"),
                                                   _val(input.df, input.df.rows[1], "RDW")))]
    /\ UNCHANGED <<model, scaler, used_features, _loaded, _available, files, disk, reads,
                   load_failed, db, input, clf_in, pc, fetched, PDF_AVAILABLE>>

NextReport == BuildReport \/ AnemiaPhenotype

SpecReport == InitReport /\ [][NextReport]_vars

\* --------------------------------------------------- a classifier stood in for
\* The trained classifier replaced by one that answers label 1 with
\* probabilities [0.1, 0.9] for every row, over the eight canonical features.
MockedBundle ==
    [model |-> [threshold |-> 1000000, sure |-> 9], scaler |-> [shift |-> 5],
     used_features |-> ValueNames]

InitExample ==
    /\ Constructed
    /\ _available = TRUE /\ PDF_AVAILABLE = TRUE
    /\ files = AllFiles /\ disk = MockedBundle
    /\ db = EmptyDb(ModelNames)

NextExample ==
    \/ PredictSingle \/ PredictBatch
    \/ ProcessManualInput
    \/ Respond

SpecExample == InitExample /\ [][NextExample]_vars

\* ------------------------------------------------ alias resolution, in isolation
\* Lists of column names as files carry them: canonical names, variants in
\* other spellings, and names that are no alias.
MaxCols == 3

ColumnNames == {"W.B.C", "wbc", "White Blood Cells", "Hb", "Hemoglobin", "HGB", " MCV ",
                "RDW-CV", "Sample_ID", "Notes"}

ColumnLists == UNION {[1..n -> ColumnNames] : n \in 1..MaxCols}

\* dict.items()
Items(rename_map) == {<<c, rename_map[c]>> : c \in DOMAIN rename_map}

InitAlias ==
    /\ model = NoneV /\ scaler = NoneV /\ used_features = NoFeatures
    /\ _loaded = FALSE /\ _available = TRUE
    /\ files = AllFiles /\ disk = BundleA /\ reads = 0 /\ load_failed = FALSE
    /\ db = EmptyDb(ModelNames)
    /\ input \in [cols : ColumnLists]
    /\ last = Idle /\ clf_in = <<>>
    /\ pc = <<>> /\ fetched = <<>>
    /\ PDF_AVAILABLE = TRUE

\* norm(col) for each column name
Norm ==
    /\ last = Idle
    /\ last' = [op |-> "norm",
                out |-> Returned([i \in 1..Len(input.cols) |-> norm(input.cols[i])])]
    /\ UNCHANGED <<model, scaler, used_features, _loaded, _available, files, disk, reads,
                   load_failed, db, input, clf_in, pc, fetched, PDF_AVAILABLE>>

\* build_rename_map(df.columns)
BuildRenameMap ==
    /\ last = Idle
    /\ last' = [op |-> "build_rename_map",
                out |-> Returned(Items(build_rename_map(input.cols)))]
    /\ UNCHANGED <<model, scaler, used_features, _loaded, _available, files, disk, reads,
                   load_failed, db, input, clf_in, pc, fetched, PDF_AVAILABLE>>

NextAlias == Norm \/ BuildRenameMap

SpecAlias == InitAlias /\ [][NextAlias]_vars

\* ------------------------------------------------- the Sex column, in isolation
\* Tables with a required HGB column and a Sex column.  A Sex column read as
\* text holds spellings of the two sexes, digits, other text and missing
\* values; one read as numbers holds codes and missing values.  The last
\* row may lack its HGB value.
MaxSeries == 3

SexTexts == {Str("F"), Str("FEMALE"), Str(" Female "), Str("M"), Str("male"), Str("0"),
             Str("1"), Str("x"), NaN}

SexCodes == {Num(0), Num(10), Num(20), Num(30), NaN}

SexSeries ==
    UNION {[1..n -> SexTexts] \cup [1..n -> SexCodes] : n \in 1..MaxSeries}

SexTable(series, complete) ==
    [cols |-> <<"HGB", "Sex">>,
     rows |-> [r \in 1..Len(series) |->
                 <<IF r = Len(series) /\ ~complete THEN NaN ELSE Num(90), series[r]>>]]

SexTables == {SexTable(series, complete) : series \in SexSeries, complete \in BOOLEAN}

InitSex ==
    /\ model = NoneV /\ scaler = NoneV /\ used_features = <<"HGB">>
    /\ _loaded = FALSE /\ _available = TRUE
    /\ files = AllFiles /\ disk = BundleA /\ reads = 0 /\ load_failed = FALSE
    /\ db = EmptyDb(ModelNames)
    /\ input \in [df : SexTables]
    /\ last = Idle /\ clf_in = <<>>
    /\ pc = <<>> /\ fetched = <<>>
    /\ PDF_AVAILABLE = TRUE

\* normalize_sex_column(df['Sex'])
NormalizeSexColumn ==
    /\ last = Idle
    /\ last' = [op |-> "normalize_sex_column",
                out |-> Returned(normalize_sex_column(column(input.df, 2)))]
    /\ UNCHANGED <<model, scaler, used_features, _loaded, _available, files, disk, reads,
                   load_failed, db, input, clf_in, pc, fetched, PDF_AVAILABLE>>

\* the table a call returned is normalized once more
PrepareAgain ==
    /\ last.op = "prepare_dataframe_for_inference" /\ last.out.ok
    /\ input' = [df |-> last.out.value]
    /\ last' = [op |-> "prepare_again",
                out |-> prepare_dataframe_for_inference(last.out.value, used_features)]
    /\ UNCHANGED <<model, scaler, used_features, _loaded, _available, files, disk, reads,
                   load_failed, db, clf_in, pc, fetched, PDF_AVAILABLE>>

NextSex == NormalizeSexColumn \/ Prepare \/ PrepareAgain

SpecSex == InitSex /\ [][NextSex]_vars

\* ------------------------------------------------------ ingestion, in isolation
\* What each parsing engine makes of the bytes of one file, and the parsed
\* tables that reach orientation detection.
NotAZip == Raised("BadZipFile", "File is not a zip file", <<>>)

NotAnOle == Raised("XLRDError", "Unsupported format, or corrupt file", <<>>)

Second == << <<"HGB", "MCV", "PLT">>, <<Str("13.5"), Str("85"), Str("9.0")>> >>

\* the tables pdfplumber extracts, page by page (a table is its rows, the
\* header first; an empty table has none)
Plumbed ==
    { << <<Printed>> >>,
      << << <<>> >>, <<Printed, Second>> >>,
      << <<Printed>>, <<Second>> >>,
      << <<>>, << <<>> >> >> }

Engines ==
    [size       : {1},
     csv        : {Unreadable},
     openpyxl   : {NotAZip, Returned(Horizontal), Returned(Vertical)},
     xlrd       : {NotAnOle, Returned(Horizontal), Returned(Vertical)},
     pdfplumber : {Unreadable} \cup {Returned(p) : p \in Plumbed},
     tabula     : {Unreadable, Returned(<<>>), Returned(<<Horizontal>>),
                   Returned(<<Vertical, Horizontal>>)}]

\* parsed tables, vertical and horizontal, under the headers met in files
Orientations ==
    { <<"Parameter", "Value">>, <<" parameter ", "VALUE">>, <<"Value", "Parameter">>,
      <<"Parameter", "Notes">>, <<"HGB", "Value">>, <<"HGB", "MCV">> }

ParameterCells == {Str("RBC"), Str("HGB")}

ValueCells == {Str("4.5"), Str("13.5"), Num(90)}

OrientedRows(h) ==
    {row \in [1..Len(h) -> ParameterCells \cup ValueCells] :
        \A i \in 1..Len(h) :
            row[i] \in (IF lower(strip(Chars[h[i]])) = Chars["parameter"]
                        THEN ParameterCells ELSE ValueCells)}

Oriented ==
    UNION {{[cols |-> h, rows |-> rows] :
               rows \in UNION {[1..n -> OrientedRows(h)] : n \in 1..MaxRows}} :
           h \in Orientations}

InitIngest ==
    /\ model = NoneV /\ scaler = NoneV /\ used_features = NoFeatures
    /\ _loaded = FALSE /\ _available = TRUE
    /\ files = AllFiles /\ disk = BundleA /\ reads = 0 /\ load_failed = FALSE
    /\ db = EmptyDb(ModelNames)
    /\ input \in [content : Engines] \cup [df : Oriented]
    /\ last = Idle /\ clf_in = <<>>
    /\ pc = <<>> /\ fetched = <<>>
    /\ PDF_AVAILABLE \in BOOLEAN

\* read_excel_file(file_content, filename)
ReadExcelFile ==
    /\ last = Idle /\ "content" \in DOMAIN input
    /\ last' = [op |-> "read_excel_file", out |-> read_excel_file(input.content)]
    /\ UNCHANGED <<model, scaler, used_features, _loaded, _available, files, disk, reads,
                   load_failed, db, input, clf_in, pc, fetched, PDF_AVAILABLE>>

\* read_pdf_file(file_content, filename)
ReadPdfFile ==
    /\ last = Idle /\ "content" \in DOMAIN input
    /\ last' = [op |-> "read_pdf_file", out |-> read_pdf_file(input.content, PDF_AVAILABLE)]
    /\ UNCHANGED <<model, scaler, used_features, _loaded, _available, files, disk, reads,
                   load_failed, db, input, clf_in, pc, fetched, PDF_AVAILABLE>>

\* detect_and_transform_csv(df)
DetectAndTransformCsv ==
    /\ last = Idle /\ "df" \in DOMAIN input
    /\ last' = [op |-> "detect_and_transform_csv",
                out |-> Returned(detect_and_transform_csv(input.df))]
    /\ UNCHANGED <<model, scaler, used_features, _loaded, _available, files, disk, reads,
                   load_failed, db, input, clf_in, pc, fetched, PDF_AVAILABLE>>

NextIngest == ReadExcelFile \/ ReadPdfFile \/ DetectAndTransformCsv

SpecIngest == InitIngest /\ [][NextIngest]_vars

\* --------------------------------- the save, requests on separate sessions
\* Each request has its own Session (get_db); the steps of the save are
\* those of lines 414-459, 573-611 and 692-719.  fetched[t] is the Model
\* row as the session of request t holds it, input[t] the entry point the
\* request runs, last.out the models of the Test rows committed so far.
SavingOps == {"process_csv_upload", "process_manual_input", "process_image_upload"}

ModelOf(op) == IF op = "process_image_upload" THEN IMAGE ELSE CBC

\* db.query(Model).filter(Model.name == ...).first(): the row is loaded into
\* the session with the committed tests_count (the image file has been
\* written by then, lines 685-687)
QueryModel(t) ==
    /\ At(t, "query")
    /\ fetched' = [fetched EXCEPT ![t] =
                      [name |-> ModelOf(input[t]),
                       tests_count |-> db.tests_count[ModelOf(input[t])]]]
    /\ db' = IF input[t] = "process_image_upload" THEN ImageStored(db) ELSE db
    /\ Goto(t, "add")
    /\ UNCHANGED <<model, scaler, used_features, _loaded, _available, files, disk, reads,
                   load_failed, input, last, clf_in, PDF_AVAILABLE>>

\* db.add(new_test); db.flush(); the CSV export; db.add(test_file): the rows
\* are pending in the session, the exported file is on disk
AddTest(t) ==
    /\ At(t, "add")
    /\ db' = IF input[t] = "process_image_upload" THEN db ELSE Exported(db)
    /\ Goto(t, "count")
    /\ UNCHANGED <<model, scaler, used_features, _loaded, _available, files, disk, reads,
                   load_failed, input, last, clf_in, fetched, PDF_AVAILABLE>>

\* cbc_model.tests_count += 1 (lines 457, 609, 717): the attribute of the
\* loaded row is read, one is added in Python, the attribute is set
CountTest(t) ==
    /\ At(t, "count")
    /\ fetched' = [fetched EXCEPT ![t].tests_count = @ + 1]
    /\ Goto(t, "commit")
    /\ UNCHANGED <<model, scaler, used_features, _loaded, _available, files, disk, reads,
                   load_failed, db, input, last, clf_in, PDF_AVAILABLE>>

\* db.commit(): the Test and TestFile rows are inserted and the Model row
\* is updated with the value the session holds (UPDATE models SET
\* tests_count = :value)
CommitTest(t) ==
    /\ At(t, "commit")
    /\ db' = [db EXCEPT !.tests = @ + 1, !.test_files = @ + 1,
                        !.tests_count[fetched[t].name] = fetched[t].tests_count]
    /\ last' = [last EXCEPT !.out = Append(@, fetched[t].name)]
    /\ Goto(t, "done")
    /\ UNCHANGED <<model, scaler, used_features, _loaded, _available, files, disk, reads,
                   load_failed, input, clf_in, fetched, PDF_AVAILABLE>>

\* db.commit() raises: the session is rolled back, nothing is committed
CommitRaises(t) ==
    /\ At(t, "commit")
    /\ Goto(t, "done")
    /\ UNCHANGED <<model, scaler, used_features, _loaded, _available, files, disk, reads,
                   load_failed, db, input, last, clf_in, fetched, PDF_AVAILABLE>>

\* the worker takes its next request, with a new session
NextUpload(t) ==
    /\ At(t, "done") /\ CanStore
    /\ \E op \in SavingOps : input' = [input EXCEPT ![t] = op]
    /\ fetched' = [fetched EXCEPT ![t] = NoneV]
    /\ Goto(t, "query")
    /\ UNCHANGED <<model, scaler, used_features, _loaded, _available, files, disk, reads,
                   load_failed, db, last, clf_in, PDF_AVAILABLE>>

InitCount ==
    /\ \E b \in Bundles :
         /\ disk = b
         /\ model = b.model /\ scaler = b.scaler /\ used_features = b.used_features
    /\ _loaded = TRUE /\ _available = TRUE
    /\ files = AllFiles /\ reads = 1 /\ load_failed = FALSE
    /\ PDF_AVAILABLE = TRUE /\ clf_in = <<>>
    /\ db = EmptyDb(ModelNames)
    /\ input \in [Requests -> SavingOps]
    /\ last = [op |-> "committed", out |-> <<>>]
    /\ pc = [t \in Requests |-> "query"]
    /\ fetched = [t \in Requests |-> NoneV]

NextCount ==
    \E t \in Requests :
        \/ QueryModel(t) \/ AddTest(t) \/ CountTest(t)
        \/ CommitTest(t) \/ CommitRaises(t) \/ NextUpload(t)

SpecCount == InitCount /\ [][NextCount]_vars

\* ======================================================= claims C1, C2, C3, C10
\* the column names of the input table after alias renaming
RenamedCols == rename(input.df, build_rename_map(input.df.cols)).cols

\* the required names that label no column after renaming
Absent == SelectSeq(used_features, LAMBDA f : \A i \in 1..Len(RenamedCols) : RenamedCols[i] # f)

MissingColumnsError == ~last.out.ok /\ last.out.what = "missing_columns"

EmptyResultError == ~last.out.ok /\ last.out.what = "no_valid_rows"

Normalizing == last.op \in {"prepare_dataframe_for_inference", "predict_batch",
                            "predict_and_annotate_dataframe"}

\* C1: the missing-columns error is raised exactly when a required name
\* labels no column after alias renaming; it lists exactly the absent
\* required names, and no prediction is made.
C1_MissingColumnsExactly ==
    Normalizing =>
        /\ (Absent # <<>>) <=> MissingColumnsError
        /\ MissingColumnsError => last.out.detail = Absent /\ clf_in = <<>>

\* the input rows with no missing value in any required feature, by position
HasNoMissing(r) ==
    \A f \in 1..Len(used_features) : \A i \in 1..Len(RenamedCols) :
        RenamedCols[i] = used_features[f] => ~isna(input.df.rows[r][i])

RECURSIVE SurvivorsFrom(_)
SurvivorsFrom(r) ==
    IF r > Len(input.df.rows) THEN <<>>
    ELSE (IF HasNoMissing(r) THEN <<r>> ELSE <<>>) \o SurvivorsFrom(r + 1)

Survivors == SurvivorsFrom(1)

\* a normalized row is the input row, texts that spell numbers parsed
SameRow(out_row, in_row) ==
    /\ Len(out_row) = Len(in_row)
    /\ \A i \in 1..Len(in_row) : ParseCell(out_row[i]) = ParseCell(in_row[i])

\* a result entry reports the values of the input row
SameValues(entry, in_row) ==
    \A v \in 1..Len(ValueNames) : \A i \in 1..Len(RenamedCols) :
        RenamedCols[i] = ValueNames[v] => entry.values[v] = ParseCell(in_row[i])

\* C2: with all required columns present, the normalized rows are exactly the
\* input rows with no missing required value, in order; predict_batch
\* returns one result per such row, row_index its position; the call fails
\* with the empty-result error iff there is no such row.
C2_SurvivorsExactly ==
    Absent = <<>> =>
        /\ Normalizing => (EmptyResultError <=> Survivors = <<>>)
        /\ last.op = "prepare_dataframe_for_inference" /\ Survivors # <<>> =>
              /\ last.out.ok
              /\ Len(last.out.value.rows) = Len(Survivors)
              /\ \A k \in 1..Len(Survivors) :
                    SameRow(last.out.value.rows[k], input.df.rows[Survivors[k]])
        /\ last.op = "predict_batch" /\ Survivors # <<>> =>
              /\ last.out.ok
              /\ Len(last.out.value) = Len(Survivors)
              /\ \A k \in 1..Len(Survivors) :
                    /\ last.out.value[k].row_index = k - 1
                    /\ SameValues(last.out.value[k], input.df.rows[Survivors[k]])

\* an input row whose required values are all numbers or texts spelling one
ValidRow(r) ==
    \A f \in 1..Len(used_features) : \A i \in 1..Len(RenamedCols) :
        RenamedCols[i] = used_features[f] => ParseCell(input.df.rows[r][i]).k = "num"

\* C3: a value that is no number is treated as missing: the normalized
\* output holds only numbers in the required features, and a batch with at
\* least one valid row is normalized and predicted rather than failed.
C3_UnparseableBecomesMissing ==
    Absent = <<>> =>
        /\ last.op = "prepare_dataframe_for_inference" /\ last.out.ok =>
              \A r \in 1..Len(last.out.value.rows) : \A f \in 1..Len(used_features) :
                  RowGet(last.out.value, last.out.value.rows[r], used_features[f]).k = "num"
        /\ Normalizing /\ (\E r \in 1..Len(input.df.rows) : ValidRow(r)) => last.out.ok

\* the normalized table the annotation starts from
NormalizedTable == prepare_dataframe_for_inference(input.df, used_features).value

\* the label cell agrees with the 0/1 cell
Agrees(code, diagnosis) ==
    /\ code \in {Num(0), Num(10)}
    /\ diagnosis = Str(IF code = Num(10) THEN "Anemia" ELSE "Normal")

\* C10: the annotated table is the normalized table, values unchanged, plus
\* exactly two appended columns, Predicted_Anemia (0 or 1) and Diagnosis, where
\* Diagnosis is "Anemia" iff Predicted_Anemia is 1 and "Normal" otherwise.
C10_TwoAppendedColumns ==
    last.op = "predict_and_annotate_dataframe" /\ last.out.ok =>
        /\ last.out.value.df_output.cols
              = NormalizedTable.cols \o <<"Predicted_Anemia", "Diagnosis">>
        /\ Len(last.out.value.df_output.rows) = Len(NormalizedTable.rows)
        /\ \A r \in 1..Len(NormalizedTable.rows) :
              /\ Len(last.out.value.df_output.rows[r]) = Len(NormalizedTable.cols) + 2
              /\ SubSeq(last.out.value.df_output.rows[r], 1, Len(NormalizedTable.cols))
                    = NormalizedTable.rows[r]
              /\ Agrees(last.out.value.df_output.rows[r][Len(NormalizedTable.cols) + 1],
                        last.out.value.df_output.rows[r][Len(NormalizedTable.cols) + 2])

\* ============================================================ claims C5 - C9
BundleSet == model # NoneV /\ scaler # NoneV /\ used_features # NoFeatures

BundleUnset == model = NoneV /\ scaler = NoneV /\ used_features = NoFeatures

\* C5: load_model is idempotent: once _loaded is True the bundle is set, and
\* no later call to load_model or to a predicting operation reads the assets
\* again or changes the bundle; the assets are read at most once.
C5_LoadIdempotent ==
    [][/\ _loaded => UNCHANGED <<model, scaler, used_features, _loaded, reads>>
       /\ _loaded' => BundleSet' /\ reads' = 1
       /\ ~_loaded' => reads' = 0]_vars

\* C5 witness: a load_model call returned on a loaded service whose asset
\* files had been replaced since: the bundle is still the one first loaded.
C5_Witness ==
    /\ last.op = "load_model" /\ last.out.ok
    /\ _loaded /\ reads = 1 /\ model # disk.model

LoadingOps == {"load_model", "predict_single", "predict_batch"}

\* C7: after a load that raised for a missing asset the service is not
\* loaded and holds no part of a bundle; a later call that finds the three
\* assets loads them.
C7_FailedLoadRetried ==
    last.op \in LoadingOps =>
        /\ LoadRaised(last.out) => ~_loaded /\ BundleUnset /\ reads = 0
        /\ _available /\ files = AllFiles => _loaded /\ BundleSet /\ ~LoadRaised(last.out)

\* C7 witness: a load raised earlier, and a later load_model call succeeded.
C7_Witness ==
    /\ load_failed /\ last.op = "load_model" /\ last.out.ok
    /\ _loaded /\ BundleSet /\ reads = 1

FirstMissing ==
    IF "MODEL_PATH" \notin files THEN "MODEL_PATH"
    ELSE IF "SCALER_PATH" \notin files THEN "SCALER_PATH"
    ELSE "FEATURES_PTH"

\* C8: with an asset file absent, load_model_and_assets raises the
\* asset-missing error naming the first absent file in the order classifier,
\* scaler, feature list, and nothing is loaded.
C8_FirstMissingAsset ==
    files # AllFiles =>
        /\ ~load_model_and_assets(files, disk).ok
        /\ load_model_and_assets(files, disk).exc = "FileNotFoundError"
        /\ load_model_and_assets(files, disk).detail = <<FirstMissing>>
        /\ ~_loaded /\ BundleUnset /\ reads = 0
        /\ last.op \in LoadingOps /\ _available =>
              ~last.out.ok /\ last.out.exc = "FileNotFoundError"
                           /\ last.out.detail = <<FirstMissing>>

\* C8 witness: load_model raised with two files absent and named the first.
C8_Witness ==
    /\ last.op = "load_model" /\ ~last.out.ok
    /\ last.out.detail = <<"SCALER_PATH">> /\ "FEATURES_PTH" \notin files

\* the table an entry point hands to the normalizer
Parsed == read_file_by_extension(input.file.content, input.file.filename, PDF_AVAILABLE)

InputTable ==
    IF last.op = "process_csv_upload" THEN detect_and_transform_csv(Parsed.value)
    ELSE input.df

\* the required features of the normalized rows, in list order, scaled
ScaledFeatures ==
    transform(scaler, FeatureMatrix(prepare_dataframe_for_inference(InputTable, used_features).value,
                                    used_features))

PredictionOps == {"predict_batch", "predict_single", "process_csv_upload",
                  "process_manual_input"}

\* C4: every prediction entry point hands predict and predict_proba the same
\* input: the required features only, in feature-list order, scaled.
C4_ClassifierInput ==
    last.op \in PredictionOps /\ clf_in # <<>> =>
        /\ ScaledFeatures.ok
        /\ clf_in = << [fn |-> "predict", ndarray |-> ScaledFeatures.value],
                       [fn |-> "predict_proba", ndarray |-> ScaledFeatures.value] >>

ProcessOps == {"process_csv_upload", "process_manual_input", "process_image_upload"}

\* C9: the three upload operations never let an exception escape: whatever
\* the input and whichever step fails, they return a result with a boolean
\* success and a message, and success is True only when the test was saved.
C9_NoExceptionEscapes ==
    [][last'.op \in ProcessOps =>
          /\ last'.out.ok
          /\ last'.out.value.success \in BOOLEAN
          /\ last'.out.value.message # ""
          /\ last'.out.value.success =>
                input'.has_db /\ input'.fault \notin {"query", "flush", "commit"}
                              /\ db'.tests = db.tests + 1]_vars

\* C9 witness: the commit of a CSV upload raised and the caller got a failure
\* result.
C9_Witness ==
    /\ last.op = "process_csv_upload" /\ input.fault = "commit"
    /\ last.out.ok /\ ~last.out.value.success
    /\ last.out.value.message = "Error saving test to database"
    /\ last.out.value.detail = "commit"

\* C6: with requests loading on first use in parallel, the assets are read
\* once, and the bundle is never assigned again once the flag is set.
C6_LoadedOnce ==
    [][/\ reads' <= 1
       /\ _loaded => UNCHANGED <<model, scaler, used_features>>]_vars

\* ========================================================== claims C11 - C20
\* the prediction results a successful call hands back: the record of
\* predict_single, the list of predict_batch, the results of an upload, the
\* result of a manual entry
ResultsOf(o) ==
    IF o.op = "predict_single" THEN <<o.out.value>>
    ELSE IF o.op = "predict_batch" THEN o.out.value
    ELSE IF o.op = "process_csv_upload" THEN o.out.value.results
    ELSE <<o.out.value.result>>

HasResults(o) ==
    /\ o.op \in PredictionOps /\ o.out.ok
    /\ o.op \in {"process_csv_upload", "process_manual_input"} => o.out.value.success

\* the percentage a result reports (predict_single calls it confidence)
PercentageOf(r) == IF "probability" \in DOMAIN r THEN r.probability ELSE r.confidence

\* a result exposes both class probabilities, and its percentage is 100 times
\* the probability of the anemia class (probabilities are held in tenths)
ExposesBoth(r) ==
    /\ "probabilities" \in DOMAIN r
    /\ DOMAIN r.probabilities = {"normal", "anemia"}
    /\ PercentageOf(r) = 10 * r.probabilities.anemia

\* C11: every prediction result returned by predict_single, predict_batch,
\* process_csv_upload and process_manual_input exposes both class
\* probabilities and a percentage that is 100 times the probability of the
\* anemia class, whichever class was predicted.
C11_BothProbabilities ==
    HasResults(last) =>
        \A k \in 1..Len(ResultsOf(last)) : ExposesBoth(ResultsOf(last)[k])

\* the results that carry a report
Reported(o) ==
    /\ HasResults(o) /\ o.op # "predict_single"
    /\ o.op = "predict_batch" => input.with_report

Reassurance == << <<"Result: Not Anemic">>, <<"Note: healthy lifestyle">> >>

\* the loaded service with a classifier that gives the same labels with
\* other probabilities
Resure(s) == [Svc EXCEPT !.model = [@ EXCEPT !.sure = s]]

FreshSession == [has_db |-> TRUE, db |-> EmptyDb(ModelNames), fault |-> "none"]

\* the same request answered with that classifier
Again(s) ==
    IF last.op = "predict_batch"
    THEN [op  |-> last.op,
          out |-> predict_batch(Resure(s), files, disk, input.df, input.with_report).out]
    ELSE IF last.op = "process_csv_upload"
    THEN [op  |-> last.op,
          out |-> process_csv_upload(Resure(s), files, disk, PDF_AVAILABLE, input.file,
                                     FreshSession).out]
    ELSE [op  |-> last.op,
          out |-> process_manual_input(Resure(s), files, disk, input.df.rows[1],
                                       FreshSession).out]

Sureness == 6..9

\* C12: the branch build_report takes depends on the binary label only: the
\* same request answered with other probabilities and the same labels gets
\* the same reports; label 0 gets the short reassurance and nothing else,
\* label 1 the "Anemia Detected" report, and the row's Diagnosis agrees.
C12_ReportByLabel ==
    Reported(last) =>
        \A k \in 1..Len(ResultsOf(last)) :
            /\ ResultsOf(last)[k].prediction_code \in {0, 1}
            /\ ResultsOf(last)[k].prediction_code = 0 =>
                  /\ ResultsOf(last)[k].report = Reassurance
                  /\ ResultsOf(last)[k].prediction = "Normal"
            /\ ResultsOf(last)[k].prediction_code = 1 =>
                  /\ ResultsOf(last)[k].report[1] = <<"Result: Anemia Detected">>
                  /\ Len(ResultsOf(last)[k].report) > Len(Reassurance)
                  /\ ResultsOf(last)[k].prediction = "Anemia"
            /\ \A s \in Sureness :
                  /\ HasResults(Again(s))
                  /\ ResultsOf(Again(s))[k].prediction_code = ResultsOf(last)[k].prediction_code
                  /\ ResultsOf(Again(s))[k].report = ResultsOf(last)[k].report

\* C12 witness: a batch answered with reports holds an anemic row with anemia
\* probability 0.9, and the same batch answered with probability 0.6 gets
\* the same "Anemia Detected" report for it.
C12_Witness ==
    /\ last.op = "predict_batch" /\ Reported(last)
    /\ \E k \in 1..Len(ResultsOf(last)) :
          /\ ResultsOf(last)[k].prediction_code = 1
          /\ ResultsOf(last)[k].probabilities.anemia = 9
          /\ ResultsOf(last)[k].report[1] = <<"Result: Anemia Detected">>
          /\ ResultsOf(Again(6))[k].probabilities.anemia = 6
          /\ ResultsOf(Again(6))[k].report = ResultsOf(last)[k].report

\* ---- the report claims, read off the row the synthesizer was given
\* a value is present when its column exists and holds a number, or a text
\* that spells one
Present(col) ==
    /\ HasColumn(input.df, col)
    /\ ParseCell(RowGet(input.df, input.df.rows[1], col)).k = "num"

\* the present value, in tenths
Tenths(col) == ParseCell(RowGet(input.df, input.df.rows[1], col)).n

MicrocyticTests == {<<"- ", "Fecal occult blood test">>, <<"- ", "Uterine bleeding/malabsorption">>}

MacrocyticTests == {<<"- ", "Vitamin B12 and folate">>, <<"- ", "Thyroid function (TSH)">>,
                    <<"- ", "Liver function (LFTs)">>}

NormocyticTests == {<<"- ", "Kidney function (Creatinine/eGFR)">>,
                    <<"- ", "Chronic diseases or acute bleeding">>}

SpecificTests == MicrocyticTests \cup MacrocyticTests \cup NormocyticTests

\* what the claim expects for the row's MCV
ExpectedPhenotype ==
    IF ~Present("MCV") THEN "undetermined"
    ELSE IF Tenths("MCV") < 800 THEN "Microcytic Anemia"
    ELSE IF Tenths("MCV") > 1000 THEN "Macrocytic Anemia"
    ELSE "Normocytic Anemia"

ExpectedTests ==
    IF ~Present("MCV") THEN {}
    ELSE IF Tenths("MCV") < 800 THEN MicrocyticTests
    ELSE IF Tenths("MCV") > 1000 THEN MacrocyticTests
    ELSE NormocyticTests

AnemiaReported == last.op = "build_report" /\ input.pred = 1

\* C13: the phenotype and the phenotype-specific tests are fixed by MCV with
\* strict boundaries and agree: below 80 Microcytic with the occult-blood
\* and bleeding/malabsorption tests, above 100 Macrocytic with B12/folate,
\* thyroid and liver tests, from 80.0 to 100.0 inclusive Normocytic with the
\* renal and chronic-disease tests; with MCV missing the phenotype is
\* undetermined and no MCV-specific test is listed.
C13_PhenotypeByMcv ==
    /\ AnemiaReported =>
          /\ \E i \in 1..Len(last.out.value) :
                last.out.value[i] = <<"Expected Classification: ", ExpectedPhenotype>>
          /\ Range(last.out.value) \cap SpecificTests = ExpectedTests
    /\ last.op = "_anemia_phenotype" => last.out.value.phenotype = ExpectedPhenotype

\* C13 witness: a row with MCV exactly 80.0 got the Normocytic report with
\* the renal test, and no occult-blood test.
C13_Witness ==
    /\ AnemiaReported /\ Present("MCV") /\ Tenths("MCV") = 800
    /\ <<"Expected Classification: ", "Normocytic Anemia">> \in Range(last.out.value)
    /\ <<"- ", "Kidney function (Creatinine/eGFR)">> \in Range(last.out.value)
    /\ <<"- ", "Fecal occult blood test">> \notin Range(last.out.value)

\* what the claim expects for the row's MCHC and RDW
ExpectedHints ==
    (IF Present("MCHC") /\ Tenths("MCHC") < 320 THEN <<"Hypochromia">> ELSE <<>>) \o
    (IF Present("RDW") /\ Tenths("RDW") > 145 THEN <<"Elevated RDW">> ELSE <<>>)

IsObservations(line) == line[1] = "Supporting Observations: "

\* C14: the hints depend on MCHC and RDW only: the hypochromia hint is given
\* exactly when MCHC is present and below 32, the elevated-RDW hint exactly
\* when RDW is present and above 14.5 (32 and 14.5 themselves give no hint),
\* and the Supporting Observations line is absent when neither applies.
C14_HintsByMchcRdw ==
    /\ AnemiaReported =>
          /\ ExpectedHints = <<>> =>
                \A i \in 1..Len(last.out.value) : ~IsObservations(last.out.value[i])
          /\ ExpectedHints # <<>> =>
                /\ <<"Supporting Observations: ", ExpectedHints>> \in Range(last.out.value)
                /\ Cardinality({i \in 1..Len(last.out.value) :
                                   IsObservations(last.out.value[i])}) = 1
    /\ last.op = "_anemia_phenotype" => last.out.value.hints = ExpectedHints

\* C14 witness: MCHC exactly 32.0 and RDW 14.6: the report gives the
\* elevated-RDW hint alone.
C14_Witness ==
    /\ AnemiaReported
    /\ Present("MCHC") /\ Tenths("MCHC") = 320 /\ Present("RDW") /\ Tenths("RDW") = 146
    /\ <<"Supporting Observations: ", <<"Elevated RDW">> >> \in Range(last.out.value)

\* the lines that may differ between two anemia reports
IsVariableLine(line) ==
    \/ line[1] \in {"Hb: ", "MCV: ", "Expected Classification: ", "Supporting Observations: "}
    \/ line \in SpecificTests

IsFixedLine(line) == ~IsVariableLine(line)

FixedLines ==
    << <<"Result: Anemia Detected">>,
       <<"Suggested Tests:">>,
       <<"- ", "Repeat CBC">>, <<"- ", "Ferritin + Serum Iron + TIBC">>, <<"- ", "CRP/ESR">>,
       <<"Lifestyle Recommendations:">>,
       <<"- ", "Iron-rich foods">>, <<"- ", "Vitamin C with meals">>,
       <<"- ", "Avoid tea and coffee after meals">>,
       <<"Red Flags:">>,
       <<"- ", "Dizziness/fainting">>, <<"- ", "Severe drop in hemoglobin">>,
       <<"- ", "Visible bleeding">>,
       <<"Important Notice: automated advisory report, not a final diagnosis">> >>

ExampleReported ==
    /\ last.op \in {"predict_single", "predict_batch", "process_manual_input"}
    /\ input.df = ManualFrame(Example)
    /\ disk = MockedBundle
    /\ last.op \in {"predict_single", "predict_batch"} => input.with_report
    /\ last.op = "process_manual_input" => input.has_db /\ input.fault = "none"

ExampleReport(r) ==
    /\ "report" \in DOMAIN r
    /\ <<"Result: Anemia Detected">> \in Range(r.report)
    /\ <<"Expected Classification: ", "Microcytic Anemia">> \in Range(r.report)
    /\ \E i \in 1..Len(r.report) :
          /\ IsObservations(r.report[i])
          /\ "Hypochromia" \in Range(r.report[i][2])
    /\ <<"- ", "Fecal occult blood test">> \in Range(r.report)

\* C16: the sample RBC 3.0, HGB 9.0, PCV 30, MCV 70, MCH 25, MCHC 30, TLC 6,
\* PLT 200, with a classifier answering label 1 and probabilities
\* [0.1, 0.9], gets through predict_single with reports, predict_batch with
\* reports and process_manual_input a report with "Anemia Detected", the
\* Microcytic phenotype, the hypochromia hint and the occult-blood test.
C16_ExampleReport ==
    ExampleReported =>
        /\ HasResults(last)
        /\ Len(ResultsOf(last)) = 1
        /\ ExampleReport(ResultsOf(last)[1])

\* an upload that carries a file name
Named(file) == file # NoneV /\ file.filename # ""

\* the supported formats, by the file name's extension in any case
Supported(file) == file_extension(file.filename) \in {Chars[".csv"], Chars[".xlsx"],
                                                      Chars[".xls"], Chars[".pdf"]}

\* the failure result that names the supported extensions
UnsupportedFormat(out) ==
    /\ out.ok /\ ~out.value.success
    /\ out.value.message = "Invalid file type."
    /\ out.value.detail = <<".csv", ".xlsx", ".xls", ".pdf">>

\* the service's bundle, its asset reads and the database stay as they were,
\* and the classifier was not called
NothingDone == UNCHANGED <<model, scaler, used_features, _loaded, reads, db>> /\ clf_in' = <<>>

\* C17: an upload whose file extension, in any case, is none of .csv, .xlsx,
\* .xls, .pdf is rejected with the unsupported-format error that names the
\* supported set, whatever its content: it is not read or parsed, the model
\* is not loaded and nothing is persisted; the reader by extension raises
\* the unsupported-format error for it.  A supported extension in any case
\* is not rejected so.
C17_UnsupportedRejected ==
    [][last'.op = "process_csv_upload" /\ Named(input'.file) =>
          /\ ~Supported(input'.file) =>
                /\ UnsupportedFormat(last'.out)
                /\ NothingDone
                /\ ~read_file_by_extension(input'.file.content, input'.file.filename,
                                           PDF_AVAILABLE).ok
                /\ read_file_by_extension(input'.file.content, input'.file.filename,
                                          PDF_AVAILABLE).what = "Unsupported file format"
          /\ Supported(input'.file) => ~UnsupportedFormat(last'.out)]_vars

\* C17 witness: a .docx upload whose bytes would parse as a CSV table, with a
\* read that would fail, was rejected as unsupported; nothing was loaded or
\* saved.
C17_Witness ==
    /\ last.op = "process_csv_upload" /\ input.file # NoneV
    /\ input.file.filename = "cbc.docx" /\ input.file.content.csv.ok
    /\ input.fault = "read"
    /\ UnsupportedFormat(last.out)
    /\ ~_loaded /\ reads = 0 /\ db.tests = 0 /\ db.exports = 0

\* C18: for a supported extension, an upload of zero bytes gets the
\* empty-file error, and one whose parse yields a table with no row or no
\* column gets the empty-data error; no prediction runs and nothing is
\* persisted.
C18_EmptyRejected ==
    [][/\ last'.op = "process_csv_upload" /\ Named(input'.file) /\ Supported(input'.file)
       /\ input'.fault # "read"
       =>
          /\ input'.file.content.size = 0 =>
                /\ ~last'.out.value.success
                /\ last'.out.value.message = "The uploaded file is empty."
                /\ NothingDone
          /\ /\ input'.file.content.size > 0
             /\ read_file_by_extension(input'.file.content, input'.file.filename,
                                       PDF_AVAILABLE).ok
             /\ \/ Len(read_file_by_extension(input'.file.content, input'.file.filename,
                                              PDF_AVAILABLE).value.rows) = 0
                \/ Len(read_file_by_extension(input'.file.content, input'.file.filename,
                                              PDF_AVAILABLE).value.cols) = 0
             => /\ ~last'.out.value.success
                /\ last'.out.value.message = "The file contains no data."
                /\ NothingDone]_vars

\* C18 witness: a CSV upload holding a header and no row got the empty-data
\* error on a service that stayed unloaded, with nothing saved.
C18_Witness ==
    /\ last.op = "process_csv_upload" /\ input.file # NoneV
    /\ input.file.filename = "cbc.csv" /\ input.file.content.size > 0
    /\ input.file.content.csv.ok /\ Len(input.file.content.csv.value.cols) = 2
    /\ Len(input.file.content.csv.value.rows) = 0
    /\ last.out.value.message = "The file contains no data."
    /\ ~_loaded /\ reads = 0 /\ db.tests = 0 /\ db.exports = 0

\* ---- alias resolution, as the claims word it
NotIgnored(c) == c \notin {" ", ".", "-", "_"}

\* a name with its spaces, '.', '-' and '_' left out, in lower case
Ignoring(cs) == lower(SelectSeq(cs, NotIgnored))

\* the column name is a spelling of a variant of the canonical name
SpellsVariant(col, std_name) ==
    \E i \in 1..Len(ALIASES[std_name]) :
        Ignoring(Chars[col]) = Ignoring(Chars[ALIASES[std_name][i]])

\* the columns of the input that are candidates for the canonical name
Candidates(std_name) == {i \in 1..Len(input.cols) : SpellsVariant(input.cols[i], std_name)}

\* C19: alias resolution ignores case, surrounding and inner spaces and the
\* characters '.', '-' and '_': a column whose normalized name equals the
\* normalized variant of a canonical name, and that is the only candidate
\* for it, is mapped to that canonical name; so "W.B.C", "wbc" and
\* "White Blood Cells" each go to TLC.
C19_AliasIgnoresSpelling ==
    /\ last.op = "norm" =>
          \A i \in 1..Len(input.cols) : last.out.value[i] = Ignoring(Chars[input.cols[i]])
    /\ last.op = "build_rename_map" =>
          \A k \in 1..Len(AliasOrder) : \A i \in 1..Len(input.cols) :
              Candidates(AliasOrder[k]) = {i} =>
                  <<input.cols[i], AliasOrder[k]>> \in last.out.value

\* C19 witness: "White Blood Cells", between two columns that are candidates
\* for other names or none, was mapped to TLC.
C19_Witness ==
    /\ last.op = "build_rename_map"
    /\ input.cols = <<"Hb", "White Blood Cells", "Notes">>
    /\ last.out.value = {<<"Hb", "HGB">>, <<"White Blood Cells", "TLC">>}

\* C20: for every list of column names the map sends at most one column
\* name to each canonical name, gives no column more than one canonical name,
\* and holds no column that matches no variant.
C20_MapWellFormed ==
    last.op = "build_rename_map" =>
        /\ \A p \in last.out.value : \A q \in last.out.value :
              (p[2] = q[2] => p = q) /\ (p[1] = q[1] => p = q)
        /\ \A p \in last.out.value :
              /\ p[1] \in Range(input.cols)
              /\ p[2] \in Range(AliasOrder)
              /\ SpellsVariant(p[1], p[2])

\* C20 witness: of two columns that are both spellings of HGB, and a third
\* that is no alias, the map holds the first alone.
C20_Witness ==
    /\ last.op = "build_rename_map"
    /\ input.cols = <<"Hemoglobin", "Hb", "Notes">>
    /\ last.out.value = {<<"Hb", "HGB">>}

\* ========================================================== claims C21 - C30
\* a table is already canonical: its columns carry canonical names, each
\* once, every column is numeric, and the required features are present and
\* not missing
Canonical(df) ==
    /\ \A i \in 1..Len(df.cols) : df.cols[i] \in Range(AliasOrder)
    /\ \A i, j \in 1..Len(df.cols) : df.cols[i] = df.cols[j] => i = j
    /\ \A f \in 1..Len(used_features) : HasColumn(df, used_features[f])
    /\ \A r \in 1..Len(df.rows) : \A i \in 1..Len(df.cols) :
          /\ df.rows[r][i].k \in {"num", "nan"}
          /\ df.cols[i] \in Range(used_features) => df.rows[r][i].k = "num"
    /\ Len(df.rows) > 0

\* C21: the normalizer applied to an already-canonical table, which includes
\* every table the normalizer itself returned, returns the identical table:
\* same columns, same rows, same values, same order.
C21_NormalizerIdempotent ==
    /\ last.op = "prepare_dataframe_for_inference" /\ Canonical(input.df) =>
          last.out.ok /\ last.out.value = input.df
    /\ last.op = "prepare_again" => last.out.ok /\ last.out.value = input.df

\* ---- orientation, as the claim words it
IsNamed(col, word) == lower(strip(Chars[col])) = Chars[word]

Vertically == (\E i \in 1..Len(input.df.cols) : IsNamed(input.df.cols[i], "parameter"))
              /\ (\E j \in 1..Len(input.df.cols) : IsNamed(input.df.cols[j], "value"))

FirstNamed(word) ==
    CHOOSE i \in 1..Len(input.df.cols) :
        /\ IsNamed(input.df.cols[i], word)
        /\ \A j \in 1..(i - 1) : ~IsNamed(input.df.cols[j], word)

\* C22: a parsed table with a column named "parameter" and a column named
\* "value", in any case and with surrounding whitespace, becomes a
\* single-row table whose column names are the Parameter values in row order
\* and whose row holds the corresponding Value entries; every other table
\* is returned unchanged.
C22_PivotVertical ==
    last.op = "detect_and_transform_csv" =>
        /\ Vertically =>
              /\ last.out.value.cols =
                    [r \in 1..Len(input.df.rows) |-> input.df.rows[r][FirstNamed("parameter")].s]
              /\ last.out.value.rows =
                    << [r \in 1..Len(input.df.rows) |-> input.df.rows[r][FirstNamed("value")]] >>
        /\ ~Vertically => last.out.value = input.df

\* C22 witness: the rows (RBC, 4.5), (HGB, 13.5) under the headers
\* " parameter " and "VALUE" became the one row {RBC: 4.5, HGB: 13.5}.
C22_Witness ==
    /\ last.op = "detect_and_transform_csv"
    /\ input.df = [cols |-> <<" parameter ", "VALUE">>,
                   rows |-> << <<Str("RBC"), Str("4.5")>>, <<Str("HGB"), Str("13.5")>> >>]
    /\ last.out.value = [cols |-> <<"RBC", "HGB">>, rows |-> << <<Str("4.5"), Str("13.5")>> >>]

\* ---- the Sex column, as the claims word it
SexColumn == column(input.df, 2)

TextColumn == \E r \in 1..Len(SexColumn) : SexColumn[r].k = "str"

\* the spellings met in the inputs, by what they stand for after trimming
\* and ignoring case
SpelledFemale == {"F", "FEMALE", " Female ", "0"}

SpelledMale == {"M", "male", "1"}

ExpectedSex(c) ==
    IF c.k = "str" /\ c.s \in SpelledFemale THEN Num(0)
    ELSE IF c.k = "str" /\ c.s \in SpelledMale THEN Num(10)
    ELSE NaN

\* the distinct codes of a numeric column, in tenths
Codes == {SexColumn[r].n : r \in {q \in 1..Len(SexColumn) : SexColumn[q].k = "num"}}

\* C23: in a string-typed Sex column F, FEMALE and 0 become 0 and M, MALE
\* and 1 become 1, after trimming and ignoring case, and any other value
\* becomes missing; a numeric column whose distinct values are exactly
\* {0, 1} is unchanged, one whose values are exactly {1, 2} has each value
\* reduced by 1, and any other numeric column keeps its numbers.
C23_SexMapping ==
    last.op = "normalize_sex_column" =>
        /\ Len(last.out.value) = Len(SexColumn)
        /\ TextColumn =>
              \A r \in 1..Len(SexColumn) : last.out.value[r] = ExpectedSex(SexColumn[r])
        /\ ~TextColumn /\ Codes = {10, 20} =>
              \A r \in 1..Len(SexColumn) :
                  last.out.value[r] = IF SexColumn[r].k = "nan" THEN NaN
                                      ELSE Num(SexColumn[r].n - 10)
        /\ ~TextColumn /\ Codes # {10, 20} => last.out.value = SexColumn

\* C23 witness: the text column (" Female ", "1", "x") became (0, 1, missing).
C23_Witness ==
    /\ last.op = "normalize_sex_column"
    /\ SexColumn = <<Str(" Female "), Str("1"), Str("x")>>
    /\ last.out.value = <<Num(0), Num(10), NaN>>

ZeroOrOne(c) == c \in {NaN, Num(0), Num(10)}

\* C28: after normalization every value of the Sex column that is not
\* missing is 0 or 1, for every string-typed or numeric Sex column.
C28_SexBinary ==
    /\ last.op = "normalize_sex_column" =>
          \A r \in 1..Len(last.out.value) : ZeroOrOne(last.out.value[r])
    /\ last.op = "prepare_dataframe_for_inference" /\ last.out.ok =>
          \A r \in 1..Len(last.out.value.rows) : ZeroOrOne(last.out.value.rows[r][2])

\* the first column, in input order, that spells a variant of the name
FirstCandidate(std_name) ==
    CHOOSE i \in Candidates(std_name) : \A j \in Candidates(std_name) : i <= j

\* C24: when two or more input columns match variants of one canonical
\* name, the map gives that name to the matching column that comes first in
\* the input column order, whichever variant each of them matches.
C24_FirstColumnWins ==
    last.op = "build_rename_map" =>
        \A k \in 1..Len(AliasOrder) :
            Cardinality(Candidates(AliasOrder[k])) >= 2 =>
                <<input.cols[FirstCandidate(AliasOrder[k])], AliasOrder[k]>> \in last.out.value

\* ---- PDF ingestion, as the claim words it
\* the tables of the pages, in page order
RECURSIVE Flattened(_)
Flattened(pages) == IF pages = <<>> THEN <<>> ELSE Head(pages) \o Flattened(Tail(pages))

NonEmptyTable(table) == Len(table) > 0

\* the non-empty tables the layout-aware extractor found, as frames
Found ==
    IF input.content.pdfplumber.ok
    THEN SelectSeq(Flattened(input.content.pdfplumber.value), NonEmptyTable)
    ELSE <<>>

\* the tables the heuristic extractor found
Fallback == IF input.content.tabula.ok THEN input.content.tabula.value ELSE <<>>

\* C25: PDF ingestion returns the first non-empty table found scanning the
\* pages in order, and only that table; the layout-aware extractor is tried
\* first and the heuristic one is used exactly when the first fails or finds
\* no non-empty table; when neither yields a table the read fails.
C25_FirstPdfTable ==
    last.op = "read_pdf_file" /\ PDF_AVAILABLE =>
        /\ Found # <<>> =>
              last.out.ok /\ last.out.value = [cols |-> Head(Found[1]), rows |-> Tail(Found[1])]
        /\ Found = <<>> /\ Fallback # <<>> => last.out.ok /\ last.out.value = Fallback[1]
        /\ Found = <<>> /\ Fallback = <<>> => ~last.out.ok

\* C26: spreadsheet ingestion returns what the primary engine parsed when
\* it succeeds, whatever the legacy engine would make of the bytes; what the
\* legacy engine parsed when only the primary one fails; and when both fail
\* it raises one error that carries the failure messages of both attempts.
C26_ExcelFallback ==
    last.op = "read_excel_file" =>
        /\ input.content.openpyxl.ok =>
              last.out.ok /\ last.out.value = input.content.openpyxl.value
        /\ ~input.content.openpyxl.ok /\ input.content.xlrd.ok =>
              last.out.ok /\ last.out.value = input.content.xlrd.value
        /\ ~input.content.openpyxl.ok /\ ~input.content.xlrd.ok =>
              /\ ~last.out.ok /\ last.out.exc = "ValueError"
              /\ last.out.detail = <<"File is not a zip file",
                                     "Unsupported format, or corrupt file">>

\* C26 witness: both engines failed, each with its own message, and the
\* error raised holds the two messages.
C26_Witness ==
    /\ last.op = "read_excel_file" /\ ~last.out.ok
    /\ input.content.openpyxl = NotAZip /\ input.content.xlrd = NotAnOle
    /\ Len(last.out.detail) = 2 /\ last.out.detail[1] # last.out.detail[2]

\* the positions of the renamed table that carry a canonical name
Carrying(std_name) == {i \in 1..Len(RenamedCols) : RenamedCols[i] = std_name}

\* C27: after the alias renaming of prepare_dataframe_for_inference the
\* table has at most one column carrying each canonical name, also when a
\* canonical name and one of its variants are both among the input columns.
C27_OneColumnPerName ==
    last.op = "prepare_dataframe_for_inference" =>
        \A std_name \in DOMAIN ALIASES : Cardinality(Carrying(std_name)) <= 1

\* a step of process_csv_upload or process_manual_input that returned a
\* result dict
SavingStep ==
    /\ last = Idle
    /\ last'.op \in {"process_csv_upload", "process_manual_input"}
    /\ last'.out.ok

\* exactly one Test, one TestFile, one exported file and one more test
\* counted for the CBC model; nothing else touched
SavedOnce ==
    /\ db'.tests = db.tests + 1 /\ db'.test_files = db.test_files + 1
    /\ db'.exports = db.exports + 1
    /\ db'.tests_count = [db.tests_count EXCEPT ![CBC] = @ + 1]
    /\ db'.images = db.images /\ db'.models = db.models

\* C29: saving a CBC result is all-or-nothing.  A call that returns success
\* False leaves no Test, no TestFile, no tests_count change and no exported
\* CSV file; a call that returns success True leaves exactly one Test, one
\* TestFile, one exported file and tests_count raised by one.
C29_SaveAllOrNothing ==
    [][SavingStep =>
          IF last'.out.value.success THEN SavedOnce ELSE db' = db]_vars

\* C29, successful half: a CBC result was saved.
C29_Saved ==
    /\ last.op \in {"process_csv_upload", "process_manual_input"}
    /\ last.out.ok /\ last.out.value.success /\ db.exports > 0

\* the Test rows committed for a model
TestsOf(name) == {i \in 1..Len(last.out) : last.out[i] = name}

\* C30: for each analysis model, after any number of successful uploads,
\* also uploads processed concurrently on separate database sessions,
\* tests_count has grown by exactly the number of Test records committed
\* for that model.
C30_NoLostIncrement ==
    \A name \in ModelNames : db.tests_count[name] = Cardinality(TestsOf(name))
====
